---------------------------- MODULE Spec2Model ----------------------------
(***************************************************************************)
(* Model of the meeting/document chatbot (src/meeting-chatbot/app): the    *)
(* document/meeting store, the provider registry, the HTTP handlers that   *)
(* change the store, and MeetingChatbot.ask_question with one step per     *)
(* await of a store or provider call.                                      *)
(*                                                                         *)
(* Text is a sequence of one-character strings, so that lower(), split(),  *)
(* re.findall and the substring test `in` are computed on characters.      *)
(* Confidence values are integers in hundredths (0.3 is 30).  A relevance  *)
(* score matches / len(keywords) is the pair [num, den].                   *)
(***************************************************************************)
EXTENDS Integers, Sequences, FiniteSets, TLC

(***************************************************************************)
(* Characters and the string operations of the source                      *)
(***************************************************************************)
UpperChars == <<"A","B","C","D","E","F","G","H","I","J","K","L","M",
                "N","O","P","Q","R","S","T","U","V","W","X","Y","Z">>

LowerChars == <<"a","b","c","d","e","f","g","h","i","j","k","l","m",
                "n","o","p","q","r","s","t","u","v","w","x","y","z">>

DigitChars == {"0","1","2","3","4","5","6","7","8","9"}

SpaceChars == {" ", "\t", "\n"}

\* The characters matched by \w in the two regular expressions.
IsWordChar(c) ==
    \/ \E i \in 1..26 : UpperChars[i] = c \/ LowerChars[i] = c
    \/ c \in DigitChars
    \/ c = "_"

IsSpace(c) == c \in SpaceChars

LowerOf(c) ==
    IF \E i \in 1..26 : UpperChars[i] = c
    THEN LowerChars[CHOOSE i \in 1..26 : UpperChars[i] = c]
    ELSE c

\* str.lower()
lower(s) == [i \in 1..Len(s) |-> LowerOf(s[i])]

\* needle in hay (substring test); the empty needle is in every string.
Contains(needle, hay) ==
    \E i \in 0..(Len(hay) - Len(needle)) :
        SubSeq(hay, i + 1, i + Len(needle)) = needle

\* The maximal runs of word characters of s, left to right: \b\w+\b.
RECURSIVE WordRuns(_, _, _, _)
WordRuns(s, i, cur, acc) ==
    IF i > Len(s)
    THEN IF cur = <<>> THEN acc ELSE Append(acc, cur)
    ELSE IF IsWordChar(s[i])
         THEN WordRuns(s, i + 1, Append(cur, s[i]), acc)
         ELSE WordRuns(s, i + 1, <<>>, IF cur = <<>> THEN acc ELSE Append(acc, cur))

\* str.split(): the maximal runs of non-whitespace characters.
RECURSIVE SplitRuns(_, _, _, _)
SplitRuns(s, i, cur, acc) ==
    IF i > Len(s)
    THEN IF cur = <<>> THEN acc ELSE Append(acc, cur)
    ELSE IF ~IsSpace(s[i])
         THEN SplitRuns(s, i + 1, Append(cur, s[i]), acc)
         ELSE SplitRuns(s, i + 1, <<>>, IF cur = <<>> THEN acc ELSE Append(acc, cur))

split(s) == SplitRuns(s, 1, <<>>, <<>>)

\* sep.join(parts)
RECURSIVE join(_, _)
join(sep, parts) ==
    IF parts = <<>> THEN <<>>
    ELSE IF Len(parts) = 1 THEN parts[1]
    ELSE parts[1] \o sep \o join(sep, Tail(parts))

Range(s) == {s[i] : i \in 1..Len(s)}

Take(s, n) == SubSeq(s, 1, IF n < Len(s) THEN n ELSE Len(s))

(***************************************************************************)
(* Keyword extraction and relevance score (chatbot.py)                     *)
(***************************************************************************)
\* Minimum keyword length of the documents path: \w{3,}
MinKeywordLen == 3

\* Number of keywords the documents path searches the store for: keywords[:5]
MaxSearchKeywords == 5

\* A plausible slip: words of more than three characters, which is what the
\* count of dropped short words would suggest.
DocKeywordsLongWords(question) ==
    SelectSeq(WordRuns(lower(question), 1, <<>>, <<>>),
              LAMBDA w : Len(w) > MinKeywordLen)

\* re.findall(r'\b\w{3,}\b', question.lower())
DocKeywords(question) ==
    SelectSeq(WordRuns(lower(question), 1, <<>>, <<>>),
              LAMBDA w : Len(w) >= MinKeywordLen)

\* re.findall(r'\b\w+\b', question.lower())
MeetingKeywords(question) == WordRuns(lower(question), 1, <<>>, <<>>)

\* sum(1 for keyword in keywords if keyword in content_lower)
Matches(keywords, content_lower) ==
    Cardinality({i \in 1..Len(keywords) : Contains(keywords[i], content_lower)})

\* A plausible slip: the divisor is the number of distinct keywords, while
\* every occurrence of a keyword still counts as a match.
RelevanceScoreDistinctDivisor(keywords, content_lower) ==
    IF keywords # <<>>
    THEN [num |-> Matches(keywords, content_lower),
          den |-> Cardinality(Range(keywords))]
    ELSE [num |-> 0, den |-> 1]

\* matches / len(keywords) if keywords else 0
RelevanceScore(keywords, content_lower) ==
    IF keywords # <<>>
    THEN [num |-> Matches(keywords, content_lower), den |-> Len(keywords)]
    ELSE [num |-> 0, den |-> 1]

\* f"{title} {content} {' '.join(tags)}".lower()
ScoredText(title, body, tags) ==
    lower(title \o <<" ">> \o body \o <<" ">> \o join(<<" ">>, tags))

ScoreLess(a, b) == a.num * b.den < b.num * a.den

(***************************************************************************)
(* Confidence estimator (chatbot.py, _calculate_confidence)                *)
(***************************************************************************)
uncertainty_phrases ==
    << <<"i"," ","d","o","n","'","t"," ","k","n","o","w">>,
       <<"i","'","m"," ","n","o","t"," ","s","u","r","e">>,
       <<"n","o"," ","i","n","f","o","r","m","a","t","i","o","n">>,
       <<"n","o","t"," ","m","e","n","t","i","o","n","e","d">>,
       <<"n","o","t"," ","s","p","e","c","i","f","i","e","d">>,
       <<"n","o","t"," ","a","v","a","i","l","a","b","l","e">> >>

\* The for loop over the phrases: the index of the first phrase found in the
\* answer (the loop returns there), or 0 when it runs to the end.
RECURSIVE FirstUncertain(_, _)
FirstUncertain(answer_lower, i) ==
    IF i > Len(uncertainty_phrases) THEN 0
    ELSE IF Contains(uncertainty_phrases[i], answer_lower) THEN i
    ELSE FirstUncertain(answer_lower, i + 1)

UncertainConfidence == 20
BaseConfidence == 70
MaxConfidence == 95
SimilarityWeight == 30

\* A plausible slip: the cap of 0.95 left out.
Round2Uncapped(overlap, terms) ==
    LET x100 == BaseConfidence * terms + SimilarityWeight * overlap
        fl   == x100 \div terms
        rem2 == 2 * (x100 % terms)
    IN  IF rem2 > terms THEN fl + 1
        ELSE IF rem2 < terms THEN fl
        ELSE IF fl \in {87, 88, 89} THEN fl + 1 ELSE fl

\* round(min(0.95, 0.7 + (overlap / terms) * 0.3), 2) in hundredths.  The
\* exact value is 70 + 30 * overlap / terms; a value exactly half way between
\* two hundredths is not representable in binary floating point, and the
\* double the code computes lies below the half except for 87.5, 88.5 and
\* 89.5, where it lies above (tabulated from CPython for terms < 400).
Round2(overlap, terms) ==
    LET x100 == BaseConfidence * terms + SimilarityWeight * overlap
        fl   == x100 \div terms
        rem2 == 2 * (x100 % terms)
    IN  IF x100 >= MaxConfidence * terms THEN MaxConfidence
        ELSE IF rem2 > terms THEN fl + 1
        ELSE IF rem2 < terms THEN fl
        ELSE IF fl \in {87, 88, 89} THEN fl + 1 ELSE fl

\* A plausible slip: the phrases are looked up in the answer as given, not
\* in its lower-case form.
CalculateConfidenceCaseSensitive(answer, question) ==
    IF FirstUncertain(answer, 1) # 0 THEN UncertainConfidence
    ELSE LET question_terms == Range(split(lower(question)))
             answer_terms   == Range(split(lower(answer)))
             overlap        == Cardinality(question_terms \cap answer_terms)
         IN  IF question_terms # {}
             THEN Round2(overlap, Cardinality(question_terms))
             ELSE Round2(0, 1)

\* A plausible slip: the overlap divided by the number of words of the
\* question, repeated words counted.
CalculateConfidenceWordList(answer, question) ==
    LET answer_lower   == lower(answer)
        question_lower == lower(question)
    IN  IF FirstUncertain(answer_lower, 1) # 0 THEN UncertainConfidence
        ELSE LET question_terms == Range(split(question_lower))
                 answer_terms   == Range(split(answer_lower))
                 overlap        == Cardinality(question_terms \cap answer_terms)
             IN  IF question_terms # {}
                 THEN Round2(overlap, Len(split(question_lower)))
                 ELSE Round2(0, 1)

CalculateConfidence(answer, question) ==
    LET answer_lower   == lower(answer)
        question_lower == lower(question)
    IN  IF FirstUncertain(answer_lower, 1) # 0 THEN UncertainConfidence
        ELSE LET question_terms == Range(split(question_lower))
                 answer_terms   == Range(split(answer_lower))
                 overlap        == Cardinality(question_terms \cap answer_terms)
             IN  IF question_terms # {}
                 THEN Round2(overlap, Cardinality(question_terms))
                 ELSE Round2(0, 1)

(***************************************************************************)
(* State                                                                   *)
(***************************************************************************)
VARIABLES
    openai_handler,     \* AIProvider.openai_handler is set (ai_handlers.py)
    gemini_handler,     \* AIProvider.gemini_handler is set
    documents,          \* db.documents, in insertion order
    meeting_summaries,  \* db.meeting_summaries, in insertion order
    now,                \* the clock read by datetime.now()
    http,               \* the last response of a store-changing endpoint
    req,                \* the chat requests in flight: slot -> frame of ask_question
    fn,                 \* the last call of a function of the pipeline, with its result
    agent,              \* the retail bot's QueryAgent: db_handler.client, db_handler.db, gemini.model set
    shop,               \* the retail bot's users, products and orders collections
    conversations,      \* the retail bot's conversations collection, in insertion order
    result              \* what the last process_query returned

vars == <<openai_handler, gemini_handler, documents, meeting_summaries, now, http,
          req, fn, agent, shop, conversations, result>>

retail == <<agent, shop, conversations, result>>

registry == <<openai_handler, gemini_handler>>
store == <<documents, meeting_summaries>>

\* The clock stops here.
MaxClock == 1

\* An optional value: Nothing (None), or Some(v).  An identifier that is not
\* given (None or the empty string, both false in `if query.doc_id`) is NoId.
Nothing == <<>>
Some(v) == <<v>>
NoId == <<>>

(***************************************************************************)
(* Texts the inputs are drawn from                                         *)
(***************************************************************************)
TxtBudget == <<"B","u","d","g","e","t">>
TxtRoadmap == <<"R","o","a","d","m","a","p">>
TxtPlanQ3 == <<"p","l","a","n"," ","f","o","r"," ","Q","3">>
TxtMisc == <<"m","i","s","c"," ","n","o","t","e","s">>
TxtPlan == <<"p","l","a","n">>
TxtStandup == <<"S","t","a","n","d","u","p">>
TxtBudgetReview == <<"b","u","d","g","e","t"," ","r","e","v","i","e","w">>
TxtIdleChat == <<"i","d","l","e"," ","c","h","a","t">>
TxtShipIt == <<"s","h","i","p"," ","i","t">>

(***************************************************************************)
(* The store (database.py over MongoDB collections)                        *)
(***************************************************************************)
\* The unique index on `field` (create_indexes) refuses a second record with
\* the same value: insert_one raises DuplicateKeyError.
NoUniqueIndex(coll, field, value) == FALSE

UniqueIndexViolated(coll, field, value) ==
    \E i \in 1..Len(coll) : coll[i][field] = value

\* collection.insert_one(record) under the unique index on `field`
InsertOne(coll, field, record) ==
    IF UniqueIndexViolated(coll, field, record[field])
    THEN [ok |-> FALSE, coll |-> coll]
    ELSE [ok |-> TRUE, coll |-> Append(coll, record)]

\* collection.find_one({field: value})
FindOne(coll, field, value) ==
    IF \E i \in 1..Len(coll) : coll[i][field] = value
    THEN Some(coll[CHOOSE i \in 1..Len(coll) :
                      /\ coll[i][field] = value
                      /\ \A j \in 1..(i - 1) : coll[j][field] # value])
    ELSE Nothing

\* collection.delete_one({field: value})
DeleteOne(coll, field, value) ==
    IF FindOne(coll, field, value) = Nothing
    THEN [deleted_count |-> 0, coll |-> coll]
    ELSE LET i == CHOOSE k \in 1..Len(coll) :
                     /\ coll[k][field] = value
                     /\ \A j \in 1..(k - 1) : coll[j][field] # value
         IN  [deleted_count |-> 1,
              coll |-> SubSeq(coll, 1, i - 1) \o SubSeq(coll, i + 1, Len(coll))]

\* A plausible slip: the update written like an upload, which stamps
\* created_at as well.
SetFieldsRefreshCreated(record, update_data) ==
    [f \in DOMAIN record |->
        IF f \in DOMAIN update_data THEN update_data[f]
        ELSE IF f = "created_at" /\ "updated_at" \in DOMAIN update_data
             THEN update_data.updated_at
             ELSE record[f]]

\* {"$set": update_data} applied to one record
SetFields(record, update_data) ==
    [f \in DOMAIN record |->
        IF f \in DOMAIN update_data THEN update_data[f] ELSE record[f]]

\* collection.update_one({field: value}, {"$set": update_data}); modified_count
\* is 0 when no record matches or when the matched record already holds the
\* values.
UpdateOne(coll, field, value, update_data) ==
    IF FindOne(coll, field, value) = Nothing
    THEN [modified_count |-> 0, coll |-> coll]
    ELSE LET i == CHOOSE k \in 1..Len(coll) :
                     /\ coll[k][field] = value
                     /\ \A j \in 1..(k - 1) : coll[j][field] # value
             new == SetFields(coll[i], update_data)
         IN  [modified_count |-> IF new = coll[i] THEN 0 ELSE 1,
              coll |-> [coll EXCEPT ![i] = new]]

\* Database.update_document: updated_at is added, then update_one
Database_update_document(doc_id, update_data) ==
    UpdateOne(documents, "doc_id", doc_id,
              update_data @@ [updated_at |-> now])

\* Database.update_meeting_summary: its first statement reads datetime, a name
\* database.py never imports at module level, so the body raises NameError,
\* which the method's own except turns into False; update_one is not reached.
Database_update_meeting_summary(meeting_id, update_data) ==
    [ok |-> FALSE, coll |-> meeting_summaries]

(***************************************************************************)
(* The provider registry (ai_handlers.py, AIProvider)                      *)
(***************************************************************************)
\* get_available_providers
AvailableProviders ==
    (IF openai_handler THEN <<"openai">> ELSE <<>>)
    \o (IF gemini_handler THEN <<"gemini">> ELSE <<>>)

\* A plausible slip: fall back to the last provider of the list.
FallbackLast(requested) ==
    IF requested \in Range(AvailableProviders) THEN requested
    ELSE IF AvailableProviders # <<>>
         THEN AvailableProviders[Len(AvailableProviders)]
         ELSE "openai"

\* ask_question, lines 198-200: the provider the request goes on with
ValidateProvider(requested) ==
    IF requested \in Range(AvailableProviders) THEN requested
    ELSE IF AvailableProviders # <<>> THEN AvailableProviders[1] ELSE "openai"

\* The handler get_response and generate_meeting_summary dispatch to, or
\* "none" (they then raise ValueError).
Dispatch(provider) ==
    IF provider = "openai" /\ openai_handler THEN "openai"
    ELSE IF provider = "gemini" /\ gemini_handler THEN "gemini"
    ELSE "none"

ProviderNames == {"openai", "gemini", "claude"}

(***************************************************************************)
(* Inputs of the store-changing endpoints                                  *)
(***************************************************************************)
\* uuid4().hex[:8]: the identifiers the generator may produce
DocIds == {<<"DOC", "A">>, <<"DOC", "B">>}

\* A JSON form field: the text parses to `value`, or does not parse.
Json(v) == [valid |-> TRUE, value |-> v]
BadJson == [valid |-> FALSE, value |-> <<>>]

\* POST /documents/upload forms
FormBudget ==
    [title |-> TxtBudget, content |-> TxtPlanQ3, category |-> Nothing,
     tags |-> Json(<<TxtPlan>>), metadata |-> Json("{}")]

FormStandup ==
    [title |-> TxtStandup, content |-> TxtMisc, category |-> Some("ops"),
     tags |-> BadJson, metadata |-> BadJson]

UploadForms == {FormBudget, FormStandup}

\* PUT /documents/{doc_id} query parameters (Nothing: not supplied)
UpdateForms ==
    { [title |-> Some(TxtRoadmap), content |-> Nothing, category |-> Nothing,
       tags |-> Some(Json(<<>>)), metadata |-> Nothing],
      [title |-> Nothing, content |-> Nothing, category |-> Nothing,
       tags |-> Nothing, metadata |-> Nothing],
      [title |-> Nothing, content |-> Nothing, category |-> Some("ops"),
       tags |-> Some(BadJson), metadata |-> Nothing] }

\* What a provider's generate_summary returns: the parsed JSON object.
SummaryBudget ==
    [summary |-> TxtBudgetReview, key_points |-> <<TxtPlan>>,
     action_items |-> <<>>, decisions |-> <<TxtShipIt>>, tags |-> <<TxtPlan>>]

SummaryIdle ==
    [summary |-> TxtIdleChat, key_points |-> <<>>,
     action_items |-> <<>>, decisions |-> <<>>, tags |-> <<>>]

\* What awaiting generate_summary does: it returns a result or raises.
SummaryOutcomes ==
    { [raises |-> FALSE, result |-> SummaryBudget],
      [raises |-> TRUE, result |-> SummaryIdle] }

Transcripts == {"transcript-1"}

\* f"MTG-{datetime.now().strftime('%Y%m%d-%H%M%S')}"
MeetingIdAt(t) == <<"MTG", t>>

TxtUnavailable ==
    <<"U","n","s","u","p","p","o","r","t","e","d"," ","o","r"," ",
      "u","n","a","v","a","i","l","a","b","l","e"," ","A","I"," ",
      "p","r","o","v","i","d","e","r",":"," ">>

TxtQuota == <<"q","u","o","t","a"," ","e","x","c","e","e","d","e","d">>
TxtConnectionLost ==
    <<"c","o","n","n","e","c","t","i","o","n"," ","l","o","s","t">>
TxtDuplicateKey ==
    <<"E","1","1","0","0","0"," ","d","u","p","l","i","c","a","t","e"," ",
      "k","e","y"," ","e","r","r","o","r">>

\* The provider name as it is printed into the ValueError's message.
ProviderText(p) ==
    CASE p = "openai" -> <<"o","p","e","n","a","i">>
      [] p = "gemini" -> <<"g","e","m","i","n","i">>
      [] OTHER        -> <<"c","l","a","u","d","e">>

\* An HTTP response: the endpoint, the status, and the detail of an
\* HTTPException raised from a caught exception (str(e)).
RespondDetail(op, status, detail) == [op |-> op, status |-> status, detail |-> detail]

Respond(op, status) == RespondDetail(op, status, <<>>)

(***************************************************************************)
(* Store-changing endpoints (main.py, summary_generator.py)                *)
(***************************************************************************)
\* json.loads(text) if text else default, with the bare except of the upload
ParsedOr(field, default) == IF field.valid THEN field.value ELSE default

\* POST /documents/upload; store_fails: insert_one raises for a reason of the
\* store's own (the connection).
DocumentData(form, doc_id, t) ==
    [doc_id     |-> doc_id,
     title      |-> form.title,
     content    |-> form.content,
     category   |-> IF form.category = Nothing THEN "general" ELSE form.category[1],
     tags       |-> ParsedOr(form.tags, <<>>),
     metadata   |-> ParsedOr(form.metadata, "{}"),
     created_at |-> t,
     updated_at |-> t]

upload_document(form, doc_id, store_fails) ==
    LET ins == InsertOne(documents, "doc_id", DocumentData(form, doc_id, now))
    IN  /\ documents' = IF store_fails THEN documents ELSE ins.coll
        /\ http' = IF store_fails
                   THEN RespondDetail("upload_document", 500, TxtConnectionLost)
                   ELSE IF ~ins.ok
                   THEN RespondDetail("upload_document", 500, TxtDuplicateKey)
                   ELSE Respond("upload_document", 200)
        /\ UNCHANGED <<retail, registry, meeting_summaries, now, req, fn>>

\* The update_data dictionary of PUT /documents/{doc_id}
UpdateData(form) ==
    LET supplied == {f \in {"title", "content", "category", "tags", "metadata"} :
                        form[f] # Nothing}
    IN  [f \in supplied |->
            IF f \in {"tags", "metadata"} THEN form[f][1].value ELSE form[f][1]]

\* PUT /documents/{doc_id}
update_document(doc_id, form, store_fails) ==
    LET bad_json == \/ form.tags # Nothing /\ ~form.tags[1].valid
                    \/ form.metadata # Nothing /\ ~form.metadata[1].valid
        update_data == UpdateData(form)
        upd == Database_update_document(doc_id, update_data)
    IN  /\ IF bad_json \/ DOMAIN update_data = {}
           THEN /\ http' = Respond("update_document", 400)
                /\ documents' = documents
           ELSE IF store_fails \/ upd.modified_count = 0
           THEN /\ http' = Respond("update_document", 404)
                /\ documents' = documents
           ELSE /\ http' = Respond("update_document", 200)
                /\ documents' = upd.coll
        /\ UNCHANGED <<retail, registry, meeting_summaries, now, req, fn>>

\* DELETE /documents/{doc_id}
delete_document(doc_id, store_fails) ==
    LET del == DeleteOne(documents, "doc_id", doc_id)
    IN  /\ documents' = IF store_fails THEN documents ELSE del.coll
        /\ http' = Respond("delete_document",
                           IF store_fails \/ del.deleted_count = 0 THEN 404 ELSE 200)
        /\ UNCHANGED <<retail, registry, meeting_summaries, now, req, fn>>

\* AIProvider.generate_meeting_summary: the handler the summary is asked of,
\* or "none" (ValueError); the requested name is used as given.
SummaryDispatch(provider) == Dispatch(provider)

\* The record generate_and_store_summary builds from the provider's result at
\* time t.
MeetingData(transcript, ai_result, date, t) ==
    [meeting_id   |-> MeetingIdAt(t),
     title        |-> TxtStandup,
     participants |-> <<>>,
     date         |-> date,
     transcript   |-> transcript,
     summary      |-> ai_result.summary,
     key_points   |-> ai_result.key_points,
     action_items |-> ai_result.action_items,
     decisions    |-> ai_result.decisions,
     tags         |-> ai_result.tags,
     created_at   |-> t,
     updated_at   |-> t]

\* A plausible slip: a meeting whose id is already stored takes the place of
\* the stored one.
upload_meetingReplaces(transcript, provider, outcome, date, store_fails) ==
    LET handler == SummaryDispatch(provider)
        meeting_data == MeetingData(transcript, outcome.result, date, now)
        ins == InsertOne(meeting_summaries, "meeting_id", meeting_data)
        raised == \/ handler = "none"
                  \/ outcome.raises
                  \/ store_fails
        detail == IF handler = "none" THEN TxtUnavailable \o ProviderText(provider)
                  ELSE IF outcome.raises THEN TxtQuota
                  ELSE TxtConnectionLost
    IN  /\ meeting_summaries' =
              IF raised THEN meeting_summaries
              ELSE IF ins.ok THEN ins.coll
              ELSE [i \in 1..Len(meeting_summaries) |->
                       IF meeting_summaries[i].meeting_id = meeting_data.meeting_id
                       THEN meeting_data
                       ELSE meeting_summaries[i]]
        /\ http' = IF raised THEN RespondDetail("upload_meeting", 500, detail)
                   ELSE Respond("upload_meeting", 200)
        /\ UNCHANGED <<retail, registry, documents, now, req, fn>>

\* POST /meetings/upload -> SummaryGenerator.generate_and_store_summary.
\* outcome: what the provider's generate_summary does (a result, or it raises);
\* date: the clock when the endpoint built the metadata, before the provider
\* was awaited.
upload_meeting(transcript, provider, outcome, date, store_fails) ==
    LET handler == SummaryDispatch(provider)
        ins == InsertOne(meeting_summaries, "meeting_id",
                         MeetingData(transcript, outcome.result, date, now))
        raised == \/ handler = "none"
                  \/ outcome.raises
                  \/ store_fails
                  \/ ~ins.ok
        detail == IF handler = "none" THEN TxtUnavailable \o ProviderText(provider)
                  ELSE IF outcome.raises THEN TxtQuota
                  ELSE IF store_fails THEN TxtConnectionLost
                  ELSE TxtDuplicateKey
    IN  /\ meeting_summaries' = IF raised THEN meeting_summaries ELSE ins.coll
        /\ http' = IF raised THEN RespondDetail("upload_meeting", 500, detail)
                   ELSE Respond("upload_meeting", 200)
        /\ UNCHANGED <<retail, registry, documents, now, req, fn>>

\* SummaryGenerator.update_meeting_summary as PUT /meetings/{id} calls it
\* (metadata is None): [ok, coll].
SummaryGenerator_update_meeting_summary(meeting_id, transcript, provider, outcome) ==
    IF SummaryDispatch(provider) = "none" \/ outcome.raises
    THEN [ok |-> FALSE, coll |-> meeting_summaries]
    ELSE Database_update_meeting_summary(
             meeting_id,
             [transcript   |-> transcript,
              summary      |-> outcome.result.summary,
              key_points   |-> outcome.result.key_points,
              action_items |-> outcome.result.action_items,
              decisions    |-> outcome.result.decisions,
              tags         |-> outcome.result.tags,
              updated_at   |-> now])

\* PUT /meetings/{meeting_id}; transcript "" stands for a missing or empty one.
update_meeting(meeting_id, transcript, provider, outcome) ==
    LET upd == SummaryGenerator_update_meeting_summary(
                   meeting_id, transcript, provider, outcome)
    IN  /\ IF transcript = ""
           THEN /\ http' = Respond("update_meeting", 400)
                /\ meeting_summaries' = meeting_summaries
           ELSE /\ http' = Respond("update_meeting", IF upd.ok THEN 200 ELSE 404)
                /\ meeting_summaries' = upd.coll
        /\ UNCHANGED <<retail, registry, documents, now, req, fn>>

\* DELETE /meetings/{meeting_id}
delete_meeting(meeting_id, store_fails) ==
    LET del == DeleteOne(meeting_summaries, "meeting_id", meeting_id)
    IN  /\ meeting_summaries' = IF store_fails THEN meeting_summaries ELSE del.coll
        /\ http' = Respond("delete_meeting",
                           IF store_fails \/ del.deleted_count = 0 THEN 404 ELSE 200)
        /\ UNCHANGED <<retail, registry, documents, now, req, fn>>

\* Time passes.
Tick ==
    /\ now < MaxClock
    /\ now' = now + 1
    /\ UNCHANGED <<retail, registry, documents, meeting_summaries, http, req, fn>>

MeetingIds == {MeetingIdAt(t) : t \in 0..MaxClock}

(***************************************************************************)
(* Retrieval (database.py reads, chatbot.py scoring)                       *)
(***************************************************************************)
SearchLimit == 10
RecentLimit == 50
MAX_CONTEXT_DOCUMENTS == 10
MaxRelevantMeetings == 10
DefaultContextDays == 30
MaxSourcesPerKind == 3
MaxSources == 5
PreviewLen == 200

\* Database.search_documents_text(search_text, limit=10): title or content
\* matches the keyword as a case-insensitive regular expression (a keyword is
\* made of word characters only, so it matches as a substring), or the
\* lower-cased keyword is one of the tags; natural (insertion) order.
search_documents_text(search_text) ==
    Take(SelectSeq(documents,
                   LAMBDA d : \/ Contains(lower(search_text), lower(d.title))
                              \/ Contains(lower(search_text), lower(d.content))
                              \/ lower(search_text) \in Range(d.tags)),
         SearchLimit)

\* A plausible slip: x goes in front of the elements of equal score.
RECURSIVE InsertByScoreUnstable(_, _)
InsertByScoreUnstable(sorted, x) ==
    IF sorted = <<>> THEN <<x>>
    ELSE IF ~ScoreLess(x.relevance_score, sorted[1].relevance_score)
         THEN <<x>> \o sorted
         ELSE <<sorted[1]>> \o InsertByScoreUnstable(Tail(sorted), x)

\* Stable insertion of x into a sequence sorted by descending score: behind
\* every element whose score is not less than x's.
RECURSIVE InsertByScore(_, _)
InsertByScore(sorted, x) ==
    IF sorted = <<>> THEN <<x>>
    ELSE IF ScoreLess(sorted[1].relevance_score, x.relevance_score)
         THEN <<x>> \o sorted
         ELSE <<sorted[1]>> \o InsertByScore(Tail(sorted), x)

\* list.sort(key=relevance_score, reverse=True)
RECURSIVE SortByScore(_, _)
SortByScore(records, done) ==
    IF records = <<>> THEN done
    ELSE SortByScore(Tail(records), InsertByScore(done, records[1]))

\* Database.get_recent_meetings(days, limit=50): date >= now - days, latest
\* first (records of one date in insertion order).
RECURSIVE InsertByDate(_, _)
InsertByDate(sorted, x) ==
    IF sorted = <<>> THEN <<x>>
    ELSE IF sorted[1].date < x.date
         THEN <<x>> \o sorted
         ELSE <<sorted[1]>> \o InsertByDate(Tail(sorted), x)

RECURSIVE SortByDate(_, _)
SortByDate(records, done) ==
    IF records = <<>> THEN done
    ELSE SortByDate(Tail(records), InsertByDate(done, records[1]))

get_recent_meetings(days) ==
    Take(SortByDate(SelectSeq(meeting_summaries, LAMBDA m : m.date >= now - days),
                    <<>>),
         RecentLimit)

\* str(_id) of a record the store returned.
StrObjectId(oid) == <<"OID", oid>>

\* doc.get('doc_id') or str(doc.get('_id', ''))
DocKey(doc) ==
    IF "doc_id" \in DOMAIN doc /\ doc.doc_id # NoId THEN doc.doc_id
    ELSE IF "_id" \in DOMAIN doc THEN StrObjectId(doc._id)
    ELSE <<>>

\* A plausible slip: the documents told apart by their doc_id alone.
RECURSIVE UniqueDocsByDocId(_, _, _)
UniqueDocsByDocId(all_docs, seen, unique_docs) ==
    IF all_docs = <<>> THEN unique_docs
    ELSE IF all_docs[1].doc_id \in seen
         THEN UniqueDocsByDocId(Tail(all_docs), seen, unique_docs)
         ELSE UniqueDocsByDocId(Tail(all_docs), seen \cup {all_docs[1].doc_id},
                                Append(unique_docs, all_docs[1]))

\* The loop that drops a document whose doc_id was already seen.
RECURSIVE UniqueDocs(_, _, _)
UniqueDocs(all_docs, seen, unique_docs) ==
    IF all_docs = <<>> THEN unique_docs
    ELSE IF DocKey(all_docs[1]) \in seen
         THEN UniqueDocs(Tail(all_docs), seen, unique_docs)
         ELSE UniqueDocs(Tail(all_docs), seen \cup {DocKey(all_docs[1])},
                         Append(unique_docs, all_docs[1]))

\* A plausible slip: the list cut to the maximum before it is sorted.
RelevantDocumentsCutFirst(all_docs, keywords) ==
    LET unique_docs == Take(UniqueDocs(all_docs, {}, <<>>), MAX_CONTEXT_DOCUMENTS)
        scored == [i \in 1..Len(unique_docs) |->
                      unique_docs[i] @@
                      [relevance_score |->
                          RelevanceScore(keywords,
                                         ScoredText(unique_docs[i].title,
                                                    unique_docs[i].content,
                                                    unique_docs[i].tags))]]
    IN  SortByScore(scored, <<>>)

\* _find_relevant_documents after its search loop: deduplicate, score, sort,
\* truncate.
RelevantDocuments(all_docs, keywords) ==
    LET unique_docs == UniqueDocs(all_docs, {}, <<>>)
        scored == [i \in 1..Len(unique_docs) |->
                      unique_docs[i] @@
                      [relevance_score |->
                          RelevanceScore(keywords,
                                         ScoredText(unique_docs[i].title,
                                                    unique_docs[i].content,
                                                    unique_docs[i].tags))]]
    IN  Take(SortByScore(scored, <<>>), MAX_CONTEXT_DOCUMENTS)

\* A plausible slip: the meetings path made like the documents path, which
\* keeps the records that match no keyword.
RelevantMeetingsUnfiltered(recent_meetings, keywords) ==
    LET scored == [i \in 1..Len(recent_meetings) |->
                      recent_meetings[i] @@
                      [relevance_score |->
                          RelevanceScore(keywords,
                                         ScoredText(recent_meetings[i].title,
                                                    recent_meetings[i].summary,
                                                    recent_meetings[i].tags))]]
    IN  Take(SortByScore(scored, <<>>), MaxRelevantMeetings)

\* _find_relevant_meetings after get_recent_meetings returned.
RelevantMeetings(recent_meetings, keywords) ==
    LET scored == [i \in 1..Len(recent_meetings) |->
                      recent_meetings[i] @@
                      [relevance_score |->
                          RelevanceScore(keywords,
                                         ScoredText(recent_meetings[i].title,
                                                    recent_meetings[i].summary,
                                                    recent_meetings[i].tags))]]
        relevant_meetings == SelectSeq(scored, LAMBDA m : m.relevance_score.num > 0)
    IN  Take(SortByScore(relevant_meetings, <<>>), MaxRelevantMeetings)

(***************************************************************************)
(* Rendering.  A context is the sequence of its record blocks (the blocks  *)
(* are joined by the delimiter line); the empty context is <<>>.           *)
(***************************************************************************)
\* _format_document_context
FormatDocumentContext(docs) ==
    [i \in 1..Len(docs) |->
        [kind |-> "Document", n |-> i, title |-> docs[i].title,
         category |-> docs[i].category, tags |-> docs[i].tags,
         content |-> docs[i].content]]

\* _format_meeting_context
FormatMeetingContext(meetings) ==
    [i \in 1..Len(meetings) |->
        [kind |-> "Meeting", n |-> i, title |-> meetings[i].title,
         date |-> meetings[i].date, participants |-> meetings[i].participants,
         summary |-> meetings[i].summary, key_points |-> meetings[i].key_points,
         action_items |-> meetings[i].action_items,
         decisions |-> meetings[i].decisions]]

\* A plausible slip: the cut without the marker.
PreviewCut(text) ==
    IF Len(text) > PreviewLen THEN SubSeq(text, 1, PreviewLen) ELSE text

\* text[:200] + "..." if len(text) > 200 else text
Preview(text) ==
    IF Len(text) > PreviewLen
    THEN SubSeq(text, 1, PreviewLen) \o <<".", ".", ".">>
    ELSE text

\* _format_source_document
FormatSourceDocument(d) ==
    [doc_id |-> d.doc_id, title |-> d.title, category |-> d.category,
     content_preview |-> Preview(d.content)]

\* _format_source_meeting
FormatSourceMeeting(m) ==
    [meeting_id |-> m.meeting_id, title |-> m.title, date |-> m.date,
     summary |-> Preview(m.summary)]

MapSeq(s, Op(_)) == [i \in 1..Len(s) |-> Op(s[i])]

(***************************************************************************)
(* MeetingChatbot.ask_question (chatbot.py), one action per await          *)
(***************************************************************************)
TxtErrorPrefix ==
    <<"E","r","r","o","r"," ","p","r","o","c","e","s","s","i","n","g"," ",
      "y","o","u","r"," ","q","u","e","s","t","i","o","n",":"," ">>

TxtAnsBudget ==
    <<"T","h","e"," ","b","u","d","g","e","t"," ","p","l","a","n"," ",
      "i","s"," ","s","e","t">>
TxtAnsUnsure ==
    <<"I"," ","D","O","N","'","T"," ","K","N","O","W"," ","t","h","e"," ",
      "b","u","d","g","e","t"," ","p","l","a","n">>
TxtAnsOk == <<"o","k">>
TxtQBudgetPlan == <<"b","u","d","g","e","t"," ","p","l","a","n">>
TxtQIsIt == <<"i","s"," ","i","t">>

\* What awaiting a handler's generate_response does: it returns the stripped
\* text, or raises with a message.
ProviderOutcomes ==
    { [raises |-> FALSE, text |-> TxtAnsBudget],
      [raises |-> FALSE, text |-> TxtAnsUnsure],
      [raises |-> FALSE, text |-> TxtAnsOk],
      [raises |-> TRUE, text |-> TxtQuota] }

NoReply == [raises |-> FALSE, text |-> <<>>]

Questions == {TxtQBudgetPlan, TxtQIsIt}

\* POST /chat/ask bodies
ChatQueries ==
    [question     : Questions,
     doc_id       : {NoId, <<"DOC", "A">>},
     meeting_id   : {NoId, MeetingIdAt(0)},
     ai_provider  : ProviderNames,
     context_days : {Nothing, Some(1)}]

NoQuery ==
    [question |-> <<>>, doc_id |-> NoId, meeting_id |-> NoId,
     ai_provider |-> "none", context_days |-> Nothing]

ChatResponse(answer, sources, ai_provider, confidence) ==
    [answer |-> answer, sources |-> sources, ai_provider |-> ai_provider,
     confidence |-> confidence]

NoResponse == ChatResponse(<<>>, <<>>, "none", 0)

NoContextConfidence == 30
ErrorConfidence == 0

\* The frame of one call of ask_question: its query (ai_provider is
\* reassigned by the validation), where it is suspended, and its locals.
\* requested, calls, invoked and reply record what was asked and what
\* happened: the provider the caller named, the outcome of each store call in
\* order (TRUE: it failed), the handlers awaited and what the handler did.
IdleFrame ==
    [pc |-> "idle", phase |-> "none", query |-> NoQuery, requested |-> "none",
     k |-> 0, all_docs |-> <<>>, parts |-> <<>>, context |-> <<>>,
     answer |-> <<>>, confidence |-> 0, sources |-> <<>>,
     calls |-> <<>>, invoked |-> <<>>, reply |-> NoReply, outcome |-> "none",
     response |-> NoResponse]

\* query.context_days or 30
ContextDays(query) ==
    IF query.context_days = Nothing \/ query.context_days = Some(0)
    THEN DefaultContextDays
    ELSE query.context_days[1]

SearchKeywords(query) == Take(DocKeywords(query.question), MaxSearchKeywords)

\* The end of _build_context (the context joins the parts; ask_question then
\* awaits get_response on either branch) or of _get_source_meetings (the
\* response is built from sources[:5]).
FinishRetrieval(f) ==
    IF f.phase = "context"
    THEN [f EXCEPT !.context = f.parts, !.pc = "get_response"]
    ELSE [f EXCEPT !.pc = "done",
                   !.outcome = "answered",
                   !.response = ChatResponse(f.answer, Take(f.sources, MaxSources),
                                             f.query.ai_provider, f.confidence)]

\* _find_relevant_documents returned: its documents go into the context, or
\* its first three into the sources; _find_relevant_meetings starts.
AfterSearch(f) ==
    LET relevant_docs == RelevantDocuments(f.all_docs, DocKeywords(f.query.question))
    IN  IF f.phase = "context"
        THEN [f EXCEPT !.parts = f.parts \o FormatDocumentContext(relevant_docs),
                       !.all_docs = <<>>, !.k = 0, !.pc = "recent_meetings"]
        ELSE [f EXCEPT !.sources = f.sources \o
                           MapSeq(Take(relevant_docs, MaxSourcesPerKind),
                                  FormatSourceDocument),
                       !.all_docs = <<>>, !.k = 0, !.pc = "recent_meetings"]

\* A plausible slip: the keyword search made whether or not the query names
\* a record.
EnterRetrievalSearchAlways(f, phase) ==
    LET g == [f EXCEPT !.phase = phase, !.parts = <<>>, !.all_docs = <<>>]
    IN  IF SearchKeywords(g.query) # <<>>
        THEN [g EXCEPT !.pc = "search_documents", !.k = 1]
        ELSE IF g.query.doc_id # NoId THEN [g EXCEPT !.pc = "get_document"]
        ELSE IF g.query.meeting_id # NoId THEN [g EXCEPT !.pc = "get_meeting"]
        ELSE AfterSearch(g)

\* The start of _build_context and of _get_source_meetings, up to the first
\* await.
EnterRetrieval(f, phase) ==
    LET g == [f EXCEPT !.phase = phase, !.parts = <<>>, !.all_docs = <<>>]
    IN  IF g.query.doc_id # NoId THEN [g EXCEPT !.pc = "get_document"]
        ELSE IF g.query.meeting_id # NoId THEN [g EXCEPT !.pc = "get_meeting"]
        ELSE IF SearchKeywords(g.query) # <<>>
             THEN [g EXCEPT !.pc = "search_documents", !.k = 1]
             ELSE AfterSearch(g)

\* A plausible slip: the validated provider kept on the chatbot singleton, so
\* that it is shared by the requests in flight.
SetFrameSharedProvider(r, f) ==
    [s \in DOMAIN req |->
        IF s = r THEN f
        ELSE IF req[s].pc = "idle" THEN req[s]
        ELSE [req[s] EXCEPT !.query.ai_provider = f.query.ai_provider]]

\* The frame of request r becomes f; no other frame is touched.
SetFrame(r, f) == [req EXCEPT ![r] = f]

\* The store calls are awaited motor calls: the request is suspended and the
\* event loop runs another one.  The handlers call their clients
\* synchronously (openai.OpenAI().chat.completions.create,
\* GenerativeModel.generate_content) inside async def: a request that is in
\* its provider call holds the loop's only thread, and no other request
\* takes a step until the call has returned or raised.
InProviderCall(f) == f.pc = "get_response"

Runnable(r) == \A s \in DOMAIN req \ {r} : ~InProviderCall(req[s])

\* Database.get_document_by_id and get_meeting_by_id: the record, or None
\* when there is none or when the store call raises (store_fails).
Database_get_document_by_id(doc_id, store_fails) ==
    IF store_fails THEN Nothing ELSE FindOne(documents, "doc_id", doc_id)

Database_get_meeting_by_id(meeting_id, store_fails) ==
    IF store_fails THEN Nothing ELSE FindOne(meeting_summaries, "meeting_id", meeting_id)

\* Database.search_documents_text and get_recent_meetings: the records, or []
\* when the store call raises.
Database_search_documents_text(search_text, store_fails) ==
    IF store_fails THEN <<>> ELSE search_documents_text(search_text)

Database_get_recent_meetings(days, store_fails) ==
    IF store_fails THEN <<>> ELSE get_recent_meetings(days)

\* ask_question is called: the provider is validated and _build_context runs
\* to its first await.
AskFrame(query) ==
    EnterRetrieval(
        [IdleFrame EXCEPT
            !.query = [query EXCEPT
                          !.ai_provider = ValidateProvider(query.ai_provider)],
            !.requested = query.ai_provider],
        "context")

AskQuestion(r, query) ==
    /\ req[r].pc = "idle"
    /\ Runnable(r)
    /\ req' = SetFrame(r, AskFrame(query))
    /\ UNCHANGED <<retail, registry, store, now, http, fn>>

\* await db.get_document_by_id(query.doc_id) returns; a failing store call is
\* turned into None by the method's except.
AfterGetDocument(f, store_fails) ==
    LET document == Database_get_document_by_id(f.query.doc_id, store_fails)
        g == IF f.phase = "context"
             THEN [f EXCEPT !.parts = f.parts \o FormatDocumentContext(document),
                            !.calls = Append(f.calls, store_fails)]
             ELSE [f EXCEPT !.sources = f.sources \o
                                MapSeq(document, FormatSourceDocument),
                            !.calls = Append(f.calls, store_fails)]
    IN  IF f.query.meeting_id # NoId
        THEN [g EXCEPT !.pc = "get_meeting"]
        ELSE FinishRetrieval(g)

GetDocumentById(r, store_fails) ==
    /\ req[r].pc = "get_document"
    /\ Runnable(r)
    /\ req' = SetFrame(r, AfterGetDocument(req[r], store_fails))
    /\ UNCHANGED <<retail, registry, store, now, http, fn>>

\* await db.get_meeting_by_id(query.meeting_id) returns.
AfterGetMeeting(f, store_fails) ==
    LET meeting == Database_get_meeting_by_id(f.query.meeting_id, store_fails)
        g == IF f.phase = "context"
             THEN [f EXCEPT !.parts = f.parts \o FormatMeetingContext(meeting),
                            !.calls = Append(f.calls, store_fails)]
             ELSE [f EXCEPT !.sources = f.sources \o
                                MapSeq(meeting, FormatSourceMeeting),
                            !.calls = Append(f.calls, store_fails)]
    IN  FinishRetrieval(g)

GetMeetingById(r, store_fails) ==
    /\ req[r].pc = "get_meeting"
    /\ Runnable(r)
    /\ req' = SetFrame(r, AfterGetMeeting(req[r], store_fails))
    /\ UNCHANGED <<retail, registry, store, now, http, fn>>

\* await db.search_documents_text(keyword, limit=10) returns for the k-th of
\* the first five keywords; a failing store call yields [].
AfterSearchDocuments(f, store_fails) ==
    LET keywords == SearchKeywords(f.query)
        docs == Database_search_documents_text(keywords[f.k], store_fails)
        g == [f EXCEPT !.all_docs = f.all_docs \o docs,
                       !.calls = Append(f.calls, store_fails)]
    IN  IF f.k < Len(keywords)
        THEN [g EXCEPT !.k = f.k + 1]
        ELSE AfterSearch(g)

SearchDocumentsText(r, store_fails) ==
    /\ req[r].pc = "search_documents"
    /\ Runnable(r)
    /\ req' = SetFrame(r, AfterSearchDocuments(req[r], store_fails))
    /\ UNCHANGED <<retail, registry, store, now, http, fn>>

\* await db.get_recent_meetings(days, limit=50) returns.
AfterGetRecentMeetings(f, store_fails) ==
    LET recent_meetings == Database_get_recent_meetings(ContextDays(f.query),
                                                         store_fails)
        relevant_meetings == RelevantMeetings(recent_meetings,
                                              MeetingKeywords(f.query.question))
        g == IF f.phase = "context"
             THEN [f EXCEPT !.parts = f.parts \o FormatMeetingContext(relevant_meetings),
                            !.calls = Append(f.calls, store_fails)]
             ELSE [f EXCEPT !.sources = f.sources \o
                                MapSeq(Take(relevant_meetings, MaxSourcesPerKind),
                                       FormatSourceMeeting),
                            !.calls = Append(f.calls, store_fails)]
    IN  FinishRetrieval(g)

GetRecentMeetings(r, store_fails) ==
    /\ req[r].pc = "recent_meetings"
    /\ Runnable(r)
    /\ req' = SetFrame(r, AfterGetRecentMeetings(req[r], store_fails))
    /\ UNCHANGED <<retail, registry, store, now, http, fn>>

\* A plausible slip: the error response given the confidence of an answer
\* without context.
ErrorResponseLowConfidence(f, message) ==
    ChatResponse(TxtErrorPrefix \o message, <<>>, f.query.ai_provider,
                 NoContextConfidence)

\* A plausible slip: the exception's text returned as the answer.
ErrorResponseBare(f, message) ==
    ChatResponse(message, <<>>, f.query.ai_provider, ErrorConfidence)

\* The except branch of ask_question.
ErrorResponse(f, message) ==
    ChatResponse(TxtErrorPrefix \o message, <<>>, f.query.ai_provider,
                 ErrorConfidence)

\* A plausible slip: the estimator's value kept when there is no context.
NoContextResponseEstimated(f, answer) ==
    ChatResponse(answer, <<>>, f.query.ai_provider,
                 CalculateConfidence(answer, f.query.question))

\* The response of the branch without context.
NoContextResponse(f, answer) ==
    ChatResponse(answer, <<>>, f.query.ai_provider, NoContextConfidence)

\* A plausible slip: a provider call that raised is made once more.
AfterGetResponseRetry(f, outcome) ==
    LET handler == Dispatch(f.query.ai_provider)
    IN  IF handler = "none"
        THEN [f EXCEPT !.pc = "done",
                       !.outcome = "unavailable",
                       !.response = ErrorResponse(f,
                           TxtUnavailable \o ProviderText(f.query.ai_provider))]
        ELSE IF outcome.raises /\ f.invoked = <<>>
        THEN [f EXCEPT !.invoked = Append(f.invoked, handler)]
        ELSE IF outcome.raises
        THEN [f EXCEPT !.pc = "done",
                       !.outcome = "provider_raised",
                       !.invoked = Append(f.invoked, handler),
                       !.reply = outcome,
                       !.response = ErrorResponse(f, outcome.text)]
        ELSE IF f.context = <<>>
        THEN [f EXCEPT !.pc = "done",
                       !.outcome = "answered",
                       !.invoked = Append(f.invoked, handler),
                       !.reply = outcome,
                       !.answer = outcome.text,
                       !.response = NoContextResponse(f, outcome.text)]
        ELSE EnterRetrieval(
                 [f EXCEPT !.invoked = Append(f.invoked, handler),
                           !.reply = outcome,
                           !.answer = outcome.text,
                           !.confidence = CalculateConfidence(outcome.text,
                                                              f.query.question)],
                 "sources")

\* await ai_provider.get_response(...) returns or raises.  With no handler for
\* the provider, get_response raises ValueError before any handler is awaited.
\* The frame stays at "get_response" for as long as the handler's client call
\* lasts.
AfterGetResponse(f, outcome) ==
    LET handler == Dispatch(f.query.ai_provider)
    IN  IF handler = "none"
        THEN [f EXCEPT !.pc = "done",
                       !.outcome = "unavailable",
                       !.response = ErrorResponse(f,
                           TxtUnavailable \o ProviderText(f.query.ai_provider))]
        ELSE IF outcome.raises
        THEN [f EXCEPT !.pc = "done",
                       !.outcome = "provider_raised",
                       !.invoked = Append(f.invoked, handler),
                       !.reply = outcome,
                       !.response = ErrorResponse(f, outcome.text)]
        ELSE IF f.context = <<>>
        THEN [f EXCEPT !.pc = "done",
                       !.outcome = "answered",
                       !.invoked = Append(f.invoked, handler),
                       !.reply = outcome,
                       !.answer = outcome.text,
                       !.response = NoContextResponse(f, outcome.text)]
        ELSE EnterRetrieval(
                 [f EXCEPT !.invoked = Append(f.invoked, handler),
                           !.reply = outcome,
                           !.answer = outcome.text,
                           !.confidence = CalculateConfidence(outcome.text,
                                                              f.query.question)],
                 "sources")

GetResponse(r, outcome) ==
    /\ req[r].pc = "get_response"
    /\ Runnable(r)
    /\ req' = SetFrame(r, AfterGetResponse(req[r], outcome))
    /\ UNCHANGED <<retail, registry, store, now, http, fn>>

\* A plausible slip: the exchange kept in the store, as the retail variant
\* logs its conversations.
ReturnLogged(r) ==
    /\ req[r].pc = "done"
    /\ Runnable(r)
    /\ req' = SetFrame(r, IdleFrame)
    /\ http' = Respond("ask_question", 200)
    /\ documents' =
           Append(documents,
                  DocumentData([FormStandup EXCEPT !.title = req[r].query.question,
                                                   !.content = req[r].response.answer],
                               <<"DOC", "LOG">>, now))
    /\ UNCHANGED <<retail, registry, meeting_summaries, now, fn>>

\* POST /chat/ask returns the ChatResponse (status 200); the frame is gone.
Return(r) ==
    /\ req[r].pc = "done"
    /\ Runnable(r)
    /\ req' = SetFrame(r, IdleFrame)
    /\ http' = Respond("ask_question", 200)
    /\ UNCHANGED <<retail, registry, store, now, fn>>

(***************************************************************************)
(* The pipeline's functions called on their own                            *)
(***************************************************************************)
TxtQMongo ==
    <<"W","h","a","t"," ","i","s"," ","M","o","n","g","o","D","B"," ","u",
      "s","e","d"," ","f","o","r","?">>
TxtQBudgetPlanQ3 ==
    <<"b","u","d","g","e","t"," ","p","l","a","n"," ","f","o","r"," ","Q","3">>
TxtQPlanPlanBudget ==
    <<"p","l","a","n"," ","p","l","a","n"," ","b","u","d","g","e","t">>
TxtQPunct == <<"?","!">>
TxtQBudgetCaps == <<"B","U","D","G","E","T"," ","p","l","a","n","?">>
TxtAnsNotSure ==
    <<"b","u","d","g","e","t"," ","p","l","a","n",":"," ","I","'","m"," ",
      "n","o","t"," ","s","u","r","e">>
TxtAnsNoInfo ==
    <<"N","o"," ","I","n","f","o","r","m","a","t","i","o","n">>
TxtAnsUnmentioned ==
    <<"i","t"," ","i","s"," ","u","n","m","e","n","t","i","o","n","e","d">>
TxtAnsNotMentioned ==
    <<"b","u","d","g","e","t"," ","i","s"," ","N","O","T"," ",
      "M","E","N","T","I","O","N","E","D">>
TxtAnsNotSpecifiedAvailable ==
    <<"n","o","t"," ","s","p","e","c","i","f","i","e","d",","," ",
      "n","o","t"," ","a","v","a","i","l","a","b","l","e">>
TxtAnsKnow == <<"I"," ","k","n","o","w"," ","t","h","e"," ","p","l","a","n">>
TxtBudgetWord == <<"b","u","d","g","e","t">>

TxtQSixKeywords == <<"p","l","a","n"," ","p","l","a","n"," ","p","l","a","n"," ","b","u","d","g","e","t"," ","p","l","a","n"," ","s","t","a","n","d","u","p">>
TxtQSixWords == <<"a"," ","b"," ","c"," ","d"," ","e"," ","f">>
TxtAnsFiveOfSix == <<"E"," ","d"," "," ","C"," ","b"," ","a">>
TxtAnsFourOfSix == <<"a"," ","b"," ","c"," ","d">>

FnQuestions ==
    {TxtQBudgetPlan, TxtQIsIt, TxtQPlanPlanBudget, TxtQPunct, TxtQBudgetCaps,
     TxtQMongo, TxtQBudgetPlanQ3, TxtQSixWords, TxtQSixKeywords, <<>>}

FnAnswers ==
    {TxtAnsBudget, TxtAnsUnsure, TxtAnsOk, TxtAnsNotSure, TxtAnsNoInfo,
     TxtAnsUnmentioned, TxtAnsNotMentioned, TxtAnsNotSpecifiedAvailable,
     TxtAnsKnow, TxtBudgetWord, TxtQBudgetPlan, TxtAnsFiveOfSix,
     TxtAnsFourOfSix, <<>>}

\* Keyword lists as the two findall calls produce them, and lists given
\* directly (with a repeated keyword, and the empty list).
FnKeywordLists ==
    {DocKeywords(q) : q \in FnQuestions} \cup {MeetingKeywords(q) : q \in FnQuestions}
    \cup { <<TxtPlan, TxtPlan>>, <<lower(TxtBudget), TxtPlan, lower(TxtBudget)>> }

FnTexts ==
    { ScoredText(TxtBudget, TxtPlanQ3, <<TxtPlan>>),
      ScoredText(TxtStandup, TxtMisc, <<>>),
      ScoredText(TxtRoadmap, TxtPlanQ3, <<>>),
      ScoredText(TxtStandup, TxtBudgetReview, <<TxtPlan>>),
      ScoredText(<<>>, <<>>, <<>>) }

\* No call is under way; fn holds the last call and its result until the
\* caller has taken it.
NoCall == [op |-> "none"]

FnReturn ==
    /\ fn # NoCall
    /\ fn' = NoCall
    /\ UNCHANGED <<retail, registry, store, now, http, req>>

\* _calculate_confidence(answer, question)
CallCalculateConfidence(answer, question) ==
    /\ fn = NoCall
    /\ fn' = [op |-> "calculate_confidence", answer |-> answer,
              question |-> question,
              result |-> CalculateConfidence(answer, question)]
    /\ UNCHANGED <<retail, registry, store, now, http, req>>

\* The scoring expression of both paths on a keyword list and a text.
CallRelevanceScore(keywords, content_lower) ==
    /\ fn = NoCall
    /\ fn' = [op |-> "relevance_score", keywords |-> keywords,
              content_lower |-> content_lower,
              result |-> RelevanceScore(keywords, content_lower)]
    /\ UNCHANGED <<retail, registry, store, now, http, req>>

\* _find_relevant_documents(query) run to its end against the store, every
\* store call succeeding: the searches for the first five keywords, then
\* deduplication, scoring, sorting and truncation.
RECURSIVE SearchAll(_, _)
SearchAll(keywords, k) ==
    IF k > Len(keywords) THEN <<>>
    ELSE Database_search_documents_text(keywords[k], FALSE)
         \o SearchAll(keywords, k + 1)

\* A plausible slip: the store searched for every keyword.
FindRelevantDocumentsAllKeywords(question) ==
    RelevantDocuments(SearchAll(DocKeywords(question), 1), DocKeywords(question))

FindRelevantDocuments(question) ==
    RelevantDocuments(SearchAll(Take(DocKeywords(question), MaxSearchKeywords), 1),
                      DocKeywords(question))

\* _find_relevant_meetings(query) run to its end against the store.
FindRelevantMeetings(question, days) ==
    RelevantMeetings(Database_get_recent_meetings(days, FALSE),
                     MeetingKeywords(question))

\* The hits of the searches of one question, as the store returns them (with
\* their _id): documents uploaded through the endpoint, which have a doc_id,
\* and documents put into the collection by other means, which have none.
MaxHits == 3

HitRecords ==
    { [doc_id |-> <<"DOC", "A">>, _id |-> 1, title |-> TxtBudget],
      [doc_id |-> <<"DOC", "B">>, _id |-> 2, title |-> TxtBudget],
      [doc_id |-> NoId, _id |-> 3, title |-> TxtBudget],
      [doc_id |-> NoId, _id |-> 4, title |-> TxtBudget] }

HitLists == UNION {[1..n -> HitRecords] : n \in 0..MaxHits}

\* The deduplication loop of _find_relevant_documents on a list of hits.
CallUniqueDocs(all_docs) ==
    /\ fn = NoCall
    /\ fn' = [op |-> "unique_docs", all_docs |-> all_docs,
              result |-> UniqueDocs(all_docs, {}, <<>>)]
    /\ UNCHANGED <<retail, registry, store, now, http, req>>

CallFindRelevant(question) ==
    /\ fn = NoCall
    /\ fn' = [op |-> "find_relevant", question |-> question,
              all_docs |-> SearchAll(Take(DocKeywords(question),
                                          MaxSearchKeywords), 1),
              documents |-> FindRelevantDocuments(question),
              recent_meetings |->
                  Database_get_recent_meetings(DefaultContextDays, FALSE),
              meetings |-> FindRelevantMeetings(question, DefaultContextDays)]
    /\ UNCHANGED <<retail, registry, store, now, http, req>>

\* The renderings of the records both paths return for a question: the
\* blocks _build_context puts into the context, and the sources
\* _get_source_meetings makes of the first three records of each kind.
CallRender(question) ==
    LET relevant_docs == FindRelevantDocuments(question)
        relevant_meetings == FindRelevantMeetings(question, DefaultContextDays)
    IN  /\ fn = NoCall
        /\ fn' = [op |-> "render", question |-> question,
                  documents |-> relevant_docs,
                  meetings |-> relevant_meetings,
                  doc_context |-> FormatDocumentContext(relevant_docs),
                  meeting_context |-> FormatMeetingContext(relevant_meetings),
                  doc_sources |->
                      MapSeq(Take(relevant_docs, MaxSourcesPerKind),
                             FormatSourceDocument),
                  meeting_sources |->
                      MapSeq(Take(relevant_meetings, MaxSourcesPerKind),
                             FormatSourceMeeting)]
        /\ UNCHANGED <<retail, registry, store, now, http, req>>

(***************************************************************************)
(* The retail bot (agentic-chatbot): QueryAgent.process_query, synchronous, *)
(* one thread per request                                                  *)
(***************************************************************************)
\* The conversations collection stops growing here.
MaxConversations == 2

EntityUsersWords ==
    <<<<"u","s","e","r">>,
      <<"c","u","s","t","o","m","e","r">>,
      <<"p","e","r","s","o","n">>,
      <<"p","e","o","p","l","e">>>>
EntityProductsWords ==
    <<<<"p","r","o","d","u","c","t">>,
      <<"i","t","e","m">>,
      <<"g","o","o","d","s">>,
      <<"i","t","e","m">>>>
EntityOrdersWords ==
    <<<<"o","r","d","e","r">>,
      <<"s","a","l","e">>,
      <<"p","u","r","c","h","a","s","e">>,
      <<"t","r","a","n","s","a","c","t","i","o","n">>>>
EntityAllWords ==
    <<<<"a","l","l">>,
      <<"e","v","e","r","y","t","h","i","n","g">>,
      <<"s","u","m","m","a","r","y">>,
      <<"o","v","e","r","v","i","e","w">>>>
ActionCountWords ==
    <<<<"c","o","u","n","t">>,
      <<"h","o","w"," ","m","a","n","y">>,
      <<"n","u","m","b","e","r">>,
      <<"t","o","t","a","l">>>>
ActionListWords ==
    <<<<"s","h","o","w">>,
      <<"d","i","s","p","l","a","y">>,
      <<"l","i","s","t">>,
      <<"g","e","t">>,
      <<"f","i","n","d">>,
      <<"s","e","a","r","c","h">>>>
ActionPriceWords ==
    <<<<"p","r","i","c","e">>,
      <<"c","o","s","t">>,
      <<"e","x","p","e","n","s","i","v","e">>,
      <<"c","h","e","a","p">>>>

\* any(word in query_lower for word in words)
AnyWordIn(ws, query_lower) ==
    \E i \in 1..Len(ws) : Contains(ws[i], query_lower)

\* A plausible slip: the orders words looked for before the users words.
analyze_query_simpleOrdersFirst(user_query) ==
    LET query_lower == lower(user_query)
    IN  [entity |-> IF AnyWordIn(EntityOrdersWords, query_lower) THEN "orders"
                    ELSE IF AnyWordIn(EntityUsersWords, query_lower) THEN "users"
                    ELSE IF AnyWordIn(EntityProductsWords, query_lower) THEN "products"
                    ELSE IF AnyWordIn(EntityAllWords, query_lower) THEN "all"
                    ELSE "general",
         action |-> IF AnyWordIn(ActionCountWords, query_lower) THEN "count"
                    ELSE IF AnyWordIn(ActionListWords, query_lower) THEN "list"
                    ELSE IF AnyWordIn(ActionPriceWords, query_lower) THEN "price_query"
                    ELSE "general",
         query  |-> user_query]

\* GeminiHandler.analyze_query_simple
analyze_query_simple(user_query) ==
    LET query_lower == lower(user_query)
    IN  [entity |-> IF AnyWordIn(EntityUsersWords, query_lower) THEN "users"
                    ELSE IF AnyWordIn(EntityProductsWords, query_lower) THEN "products"
                    ELSE IF AnyWordIn(EntityOrdersWords, query_lower) THEN "orders"
                    ELSE IF AnyWordIn(EntityAllWords, query_lower) THEN "all"
                    ELSE "general",
         action |-> IF AnyWordIn(ActionCountWords, query_lower) THEN "count"
                    ELSE IF AnyWordIn(ActionListWords, query_lower) THEN "list"
                    ELSE IF AnyWordIn(ActionPriceWords, query_lower) THEN "price_query"
                    ELSE "general",
         query  |-> user_query]

TxtSearchWord == <<"s","e","a","r","c","h">>
TxtFindWord == <<"f","i","n","d">>
SearchStopWords ==
    {<<"f","i","n","d">>,
     <<"s","e","a","r","c","h">>,
     <<"f","o","r">>,
     <<"m","e">>,
     <<"s","h","o","w">>,
     <<"a","l","l">>}

\* MongoDBHandler.connect: what the attempt to connect does.  MongoClient(...)
\* may raise (a malformed URI), the ping raises ConnectionFailure when no
\* server answers, and list_collection_names may raise after the ping.
ConnectOutcomes == {"connected", "client_raises", "ping_raises", "list_raises"}

\* A plausible slip: the handlers of a failed ping leave the client set.
connectKeepsClient(outcome) ==
    LET constructed == [client |-> FALSE, db |-> FALSE]
        opened == [constructed EXCEPT !.client = TRUE]
        selected == [opened EXCEPT !.db = TRUE]
    IN  IF outcome = "client_raises" THEN constructed
        ELSE IF outcome = "ping_raises" THEN opened
        ELSE IF outcome = "list_raises" THEN [client |-> FALSE, db |-> FALSE]
        ELSE selected

\* MongoDBHandler.__init__ and connect: [client, db], TRUE for a handle that
\* is set.  Both except clauses reset the two handles.
connect(outcome) ==
    LET constructed == [client |-> FALSE, db |-> FALSE]
        opened == [constructed EXCEPT !.client = TRUE]
        selected == [opened EXCEPT !.db = TRUE]
    IN  IF outcome = "client_raises" THEN constructed
        ELSE IF outcome = "ping_raises" THEN [client |-> FALSE, db |-> FALSE]
        ELSE IF outcome = "list_raises" THEN [client |-> FALSE, db |-> FALSE]
        ELSE selected

\* MongoDBHandler.is_connected
is_connected == agent.client

\* The reading methods of MongoDBHandler.  Without a client they return the
\* demo data; with one, what the store holds, or 0 and [] when the call
\* raises (self.db[...] raises as well when db is not set).  Amounts are in
\* cents; a user's name is a string, or Nothing for a record whose name is
\* null.
ReadLimit == 10
DemoUserCount == 25
DemoProductCount == 50
DemoTotalSales == 1250050
TxtLaptop == <<"L","a","p","t","o","p">>
TxtElectronics == <<"E","l","e","c","t","r","o","n","i","c","s">>
TxtTShirt == <<"T","-","s","h","i","r","t">>
TxtClothing == <<"C","l","o","t","h","i","n","g">>
DemoUsers == <<[name |-> Some("John Doe")], [name |-> Some("Jane Smith")]>>
DemoProducts ==
    <<[name |-> TxtLaptop, category |-> TxtElectronics],
      [name |-> TxtTShirt, category |-> TxtClothing]>>
DemoSearch == <<[name |-> TxtLaptop, category |-> TxtElectronics]>>
DemoOrders == <<[total_amount |-> 99999], [total_amount |-> 3998]>>

Raises(fails) == fails \/ ~agent.db

get_user_count(fails) ==
    IF ~is_connected THEN DemoUserCount
    ELSE IF Raises(fails) THEN 0
    ELSE Len(shop.users)

get_users(fails) ==
    IF ~is_connected THEN DemoUsers
    ELSE IF Raises(fails) THEN <<>>
    ELSE Take(shop.users, ReadLimit)

get_product_count(fails) ==
    IF ~is_connected THEN DemoProductCount
    ELSE IF Raises(fails) THEN 0
    ELSE Len(shop.products)

get_products(fails) ==
    IF ~is_connected THEN DemoProducts
    ELSE IF Raises(fails) THEN <<>>
    ELSE Take(shop.products, ReadLimit)

\* The keyword is looked for in name and category without regard to case
\* (the records of the model have no description).
search_products(keyword, fails) ==
    IF ~is_connected THEN DemoSearch
    ELSE IF Raises(fails) THEN <<>>
    ELSE Take(SelectSeq(shop.products,
                        LAMBDA p : \/ Contains(lower(keyword), lower(p.name))
                                   \/ Contains(lower(keyword), lower(p.category))),
              ReadLimit)

RECURSIVE SumAmounts(_)
SumAmounts(orders) ==
    IF orders = <<>> THEN 0
    ELSE orders[1].total_amount + SumAmounts(Tail(orders))

get_total_sales(fails) ==
    IF ~is_connected THEN DemoTotalSales
    ELSE IF Raises(fails) THEN 0
    ELSE SumAmounts(shop.orders)

get_orders(fails) ==
    IF ~is_connected THEN DemoOrders
    ELSE IF Raises(fails) THEN <<>>
    ELSE Take(shop.orders, ReadLimit)

\* MongoDBHandler.get_all_data_summary
get_all_data_summary(fails) ==
    [users |-> get_user_count(fails), products |-> get_product_count(fails),
     total_sales |-> get_total_sales(fails), connected |-> is_connected]

\* The first word of the query that is not a stop word, if any.
SearchWord(ws) ==
    LET kept == SelectSeq(ws, LAMBDA w : w \notin SearchStopWords)
    IN  IF kept = <<>> THEN Nothing ELSE Some(kept[1])

\* QueryAgent._get_data.  fails: the store calls of this query raise.
GetData(analysis, fails) ==
    LET query == lower(analysis.query)
        word == IF Contains(TxtSearchWord, query) \/ Contains(TxtFindWord, query)
                THEN SearchWord(split(query))
                ELSE Nothing
    IN  CASE analysis.entity = "users" /\ analysis.action = "count" ->
                [count |-> get_user_count(fails), type |-> "users"]
          [] analysis.entity = "users" /\ analysis.action # "count" ->
                [users |-> get_users(fails), count |-> get_user_count(fails)]
          [] analysis.entity = "products" /\ analysis.action = "count" ->
                [count |-> get_product_count(fails), type |-> "products"]
          [] analysis.entity = "products" /\ analysis.action # "count" ->
                IF word # Nothing
                THEN LET products == search_products(word[1], fails)
                     IN  [products |-> products, count |-> Len(products),
                          searched_for |-> word[1]]
                ELSE [products |-> get_products(fails),
                      count |-> get_product_count(fails)]
          [] analysis.entity = "orders" /\ analysis.action = "count" ->
                [count |-> Len(get_orders(fails)),
                 total_sales |-> get_total_sales(fails), type |-> "orders"]
          [] analysis.entity = "orders" /\ analysis.action # "count" ->
                LET orders == get_orders(fails)
                IN  [orders |-> orders, count |-> Len(orders),
                     total_sales |-> get_total_sales(fails)]
          [] OTHER -> get_all_data_summary(fails)

\* What GeminiHandler.generate_response returns when the model is set: the
\* model's text, or the text made of the exception it raised.
RetailReplies == {"Here is what I found.", "I encountered an error: quota"}

\* A response that was returned.
Said(r) == [raises |-> FALSE, response |-> r]

\* QueryAgent._generate_response: [raises, response].  Without a model the
\* response is one of the fixed sentences, given here by its name and the
\* values put into it; ", ".join over a name that is not a string raises
\* TypeError.
GenerateResponse(user_query, data, analysis, fails, reply) ==
    IF agent.model THEN Said([text |-> reply])
    ELSE CASE analysis.entity = "users" /\ analysis.action = "count" ->
                Said([text |-> "We have {count} users in the database.",
                      count |-> data.count])
           [] analysis.entity = "users" /\ analysis.action # "count" ->
                IF data.users = <<>>
                THEN Said([text |-> "No users found in the database."])
                ELSE IF \E i \in 1..Len(Take(data.users, 3)) :
                            data.users[i].name = Nothing
                THEN [raises |-> TRUE,
                      response |-> [text |-> "sequence item 0: expected str instance, NoneType found"]]
                ELSE Said([text |-> "Found {count} users. Some of them are: {names}{more}",
                           count |-> Len(data.users),
                           names |-> [i \in 1..Len(Take(data.users, 3)) |->
                                         data.users[i].name[1]],
                           more |-> Len(data.users) > 3])
           [] analysis.entity = "products" /\ analysis.action = "count" ->
                Said([text |-> "We have {count} products available.",
                      count |-> data.count])
           [] analysis.entity = "products" /\ analysis.action # "count" ->
                IF data.products = <<>> THEN Said([text |-> "No products found."])
                ELSE IF "searched_for" \in DOMAIN data
                THEN Said([text |-> "Found {count} products matching '{search_term}'.",
                           count |-> Len(data.products),
                           search_term |-> data.searched_for])
                ELSE Said([text |-> "We have {count} products in various categories.",
                           count |-> Len(data.products)])
           [] analysis.entity = "orders" ->
                Said([text |-> "We have {count} orders with total sales of ${total_sales:,.2f}.",
                      count |-> data.count, total_sales |-> data.total_sales])
           [] OTHER ->
                Said([text |-> "Here's what I found: {users} users, {products} products, and total sales of ${total_sales:,.2f}.",
                      users |-> get_all_data_summary(fails).users,
                      products |-> get_all_data_summary(fails).products,
                      total_sales |-> get_all_data_summary(fails).total_sales])

\* MongoDBHandler.save_conversation: without a client nothing is stored
\* ("demo_id"); a raising insert_one is swallowed by the bare except
\* ("error_id"); otherwise the record is inserted.
save_conversation(session_id, user_query, agent_response, metadata, insert_fails) ==
    IF ~is_connected THEN [id |-> "demo_id", coll |-> conversations]
    ELSE IF Raises(insert_fails) THEN [id |-> "error_id", coll |-> conversations]
    ELSE [id |-> "inserted_id",
          coll |-> Append(conversations,
                          [session_id |-> session_id, user_query |-> user_query,
                           agent_response |-> agent_response,
                           metadata |-> metadata, created_at |-> now])]

TxtQHowManyUsers == <<"H","o","w"," ","m","a","n","y"," ","u","s","e","r","s","?">>
TxtQShowUsers == <<"s","h","o","w"," ","u","s","e","r","s">>
TxtQFindLaptop == <<"f","i","n","d"," ","l","a","p","t","o","p"," ","p","r","o","d","u","c","t","s">>
TxtQOrders == <<"l","i","s","t"," ","o","r","d","e","r","s">>
TxtQHello == <<"h","e","l","l","o">>

TxtQShowAllProducts == <<"S","h","o","w"," ","m","e"," ","a","l","l"," ","p","r","o","d","u","c","t","s">>
TxtQTotalSales == <<"W","h","a","t","'","s"," ","t","h","e"," ","t","o","t","a","l"," ","s","a","l","e","s","?">>
TxtQSummary == <<"G","i","v","e"," ","m","e"," ","a"," ","s","u","m","m","a","r","y">>
TxtQCustomerOrderCost == <<"c","u","s","t","o","m","e","r"," ","o","r","d","e","r"," ","c","o","s","t">>
TxtQListItemCount == <<"l","i","s","t"," ","t","h","e"," ","i","t","e","m"," ","c","o","u","n","t">>
TxtQHowManyOrders == <<"H","o","w"," ","m","a","n","y"," ","o","r","d","e","r","s"," ","a","r","e"," ","t","h","e","r","e","?">>

UserQueries ==
    {TxtQHowManyUsers, TxtQShowUsers, TxtQFindLaptop, TxtQOrders, TxtQHello}

\* The queries of the /demo endpoint that are not among them, and queries
\* with words of several groups.
ShopQueries ==
    UserQueries \cup
    {TxtQShowAllProducts, TxtQTotalSales, TxtQSummary, TxtQCustomerOrderCost,
     TxtQListItemCount, TxtQHowManyOrders}

SessionIds == {"default", "session_1"}

NoResult == [status |-> "none"]

\* QueryAgent.process_query.  fails: the store reads raise; reply: what
\* the model answers; insert_fails: insert_one raises.
process_query(user_query, session_id, fails, reply, insert_fails) ==
    LET analysis == analyze_query_simple(user_query)
        data == GetData(analysis, fails)
        gen == GenerateResponse(user_query, data, analysis, fails, reply)
        saved == save_conversation(session_id, user_query, gen.response, analysis,
                                   insert_fails)
    IN  /\ Len(conversations) < MaxConversations
        /\ IF gen.raises
           THEN /\ conversations' = conversations
                /\ result' = [status |-> "error",
                              response |-> [text |-> "Sorry, I encountered an error: {e}",
                                            e |-> gen.response.text],
                              data |-> Nothing, timestamp |-> now]
           ELSE /\ conversations' = saved.coll
                /\ result' = [status |-> "success", response |-> gen.response,
                              data |-> Some(data), analysis |-> analysis,
                              timestamp |-> now]
        /\ UNCHANGED <<registry, store, now, http, req, fn, agent, shop>>

(***************************************************************************)
(* Specifications                                                          *)
(***************************************************************************)
\* The store outlives the process: what it may hold when the process starts.
\* The records are the ones the upload endpoints write; OldDate is a time
\* before the process started.
OldDate == 0 - 2

SampleDocuments ==
    { <<>>,
      <<DocumentData(FormBudget, <<"DOC", "A">>, OldDate)>>,
      <<DocumentData(FormStandup, <<"DOC", "B">>, OldDate),
        DocumentData(FormBudget, <<"DOC", "A">>, 0)>> }

SampleMeetings ==
    { <<>>,
      <<MeetingData("transcript-1", SummaryBudget, OldDate, OldDate)>>,
      <<MeetingData("transcript-1", SummaryIdle, OldDate, OldDate),
        MeetingData("transcript-2", SummaryBudget, 0, 0)>> }

\* The stores a process is started on: <<documents, meeting_summaries>>.
SampleStores ==
    LET d == [n \in 0..2 |-> CHOOSE x \in SampleDocuments : Len(x) = n]
        m == [n \in 0..2 |-> CHOOSE x \in SampleMeetings : Len(x) = n]
    IN  { <<d[0], m[0]>>, <<d[1], m[1]>>, <<d[0], m[2]>>, <<d[2], m[2]>> }

\* A store with more records than the pipeline returns: twelve documents and
\* twelve meetings whose scores for a question about the budget plan differ
\* and repeat, in an order that is not the order of their scores.
FormBudgetNotes ==
    [title |-> TxtBudget, content |-> TxtMisc, category |-> Nothing,
     tags |-> Json(<<>>), metadata |-> Json("{}")]

FormRoadmap ==
    [title |-> TxtRoadmap, content |-> TxtPlanQ3, category |-> Some("ops"),
     tags |-> Json(<<>>), metadata |-> Json("{}")]

SummaryReview ==
    [summary |-> TxtBudgetReview, key_points |-> <<>>,
     action_items |-> <<>>, decisions |-> <<>>, tags |-> <<>>]

LargeNames ==
    <<"D01", "D02", "D03", "D04", "D05", "D06",
      "D07", "D08", "D09", "D10", "D11", "D12">>

LargeDocuments ==
    [i \in 1..Len(LargeNames) |->
        DocumentData(CASE i % 3 = 1 -> FormBudgetNotes
                       [] i % 3 = 2 -> FormBudget
                       [] OTHER     -> FormRoadmap,
                     <<"DOC", LargeNames[i]>>, OldDate)]

LargeMeetings ==
    [i \in 1..Len(LargeNames) |->
        MeetingData("transcript-1",
                    IF i % 3 = 2 THEN SummaryBudget ELSE SummaryReview,
                    0 - (i % 2), 0 - i)]

\* The documents and the question of example_chatbot_usage.py.

TxtDoc1Title ==
    <<"G","e","m","i","n","i"," ","C","h","a","t","b","o","t"," ","P","r",
      "o","j","e","c","t">>

TxtDoc1Content ==
    <<"\n"," "," "," "," ","P","r","o","j","e","c","t"," ","G","e","m","i",
      "n","i"," ","C","h","a","t","b","o","t"," ","i","s"," ","a","n"," ",
      "i","n","t","e","l","l","i","g","e","n","t"," ","c","h","a","t","b",
      "o","t"," ","s","y","s","t","e","m"," ","t","h","a","t"," ","u","s",
      "e","s"," ","G","o","o","g","l","e","'","s"," ","G","e","m","i","n",
      "i"," ","A","I"," ","\n"," "," "," "," ","t","o"," ","a","n","s","w",
      "e","r"," ","q","u","e","s","t","i","o","n","s"," ","b","a","s","e",
      "d"," ","o","n"," ","d","o","c","u","m","e","n","t","s"," ","s","t",
      "o","r","e","d"," ","i","n"," ","M","o","n","g","o","D","B","."," ",
      "T","h","e"," ","s","y","s","t","e","m"," ","i","m","p","l","e","m",
      "e","n","t","s"," ","\n"," "," "," "," ","R","A","G"," ","(","R","e",
      "t","r","i","e","v","a","l"," ","A","u","g","m","e","n","t","e","d",
      " ","G","e","n","e","r","a","t","i","o","n",")"," ","t","o"," ","p",
      "r","o","v","i","d","e"," ","a","c","c","u","r","a","t","e"," ","a",
      "n","s","w","e","r","s"," ","f","r","o","m"," ","c","o","n","n","e",
      "c","t","e","d"," ","d","a","t","a",".","\n"," "," "," "," ","\n"," ",
      " "," "," ","K","e","y"," ","F","e","a","t","u","r","e","s",":","\n",
      " "," "," "," ","-"," ","U","s","e","s"," ","G","e","m","i","n","i",
      " ","A","I"," ","f","o","r"," ","i","n","t","e","l","l","i","g","e",
      "n","t"," ","r","e","s","p","o","n","s","e","s","\n"," "," "," "," ",
      "-"," ","S","t","o","r","e","s"," ","d","o","c","u","m","e","n","t",
      "s"," ","i","n"," ","M","o","n","g","o","D","B","\n"," "," "," "," ",
      "-"," ","R","e","t","r","i","e","v","e","s"," ","r","e","l","e","v",
      "a","n","t"," ","c","o","n","t","e","x","t"," ","f","r","o","m"," ",
      "d","a","t","a","b","a","s","e","\n"," "," "," "," ","-"," ","A","n",
      "s","w","e","r","s"," ","q","u","e","s","t","i","o","n","s"," ","b",
      "a","s","e","d"," ","o","n"," ","c","o","n","n","e","c","t","e","d",
      " ","d","o","c","u","m","e","n","t","s","\n"," "," "," "," ">>

TxtDoc2Title ==
    <<"M","o","n","g","o","D","B"," ","D","a","t","a","b","a","s","e">>

TxtDoc2Content ==
    <<"\n"," "," "," "," ","M","o","n","g","o","D","B"," ","i","s"," ","a",
      " ","N","o","S","Q","L"," ","d","a","t","a","b","a","s","e"," ","t",
      "h","a","t"," ","s","t","o","r","e","s"," ","d","a","t","a"," ","i",
      "n"," ","f","l","e","x","i","b","l","e",","," ","J","S","O","N","-",
      "l","i","k","e"," ","d","o","c","u","m","e","n","t","s","."," ","\n",
      " "," "," "," ","I","n"," ","t","h","i","s"," ","c","h","a","t","b",
      "o","t"," ","s","y","s","t","e","m",","," ","M","o","n","g","o","D",
      "B"," ","i","s"," ","u","s","e","d"," ","t","o"," ","s","t","o","r",
      "e",":","\n"," "," "," "," ","-"," ","G","e","n","e","r","a","l"," ",
      "d","o","c","u","m","e","n","t","s"," ","u","p","l","o","a","d","e",
      "d"," ","b","y"," ","u","s","e","r","s","\n"," "," "," "," ","-"," ",
      "M","e","e","t","i","n","g"," ","s","u","m","m","a","r","i","e","s",
      " ","a","n","d"," ","t","r","a","n","s","c","r","i","p","t","s","\n",
      " "," "," "," ","-"," ","D","o","c","u","m","e","n","t"," ","m","e",
      "t","a","d","a","t","a"," ","a","n","d"," ","t","a","g","s","\n"," ",
      " "," "," ","\n"," "," "," "," ","T","h","e"," ","d","a","t","a","b",
      "a","s","e"," ","i","s"," ","q","u","e","r","i","e","d"," ","t","o",
      " ","f","i","n","d"," ","r","e","l","e","v","a","n","t"," ","d","o",
      "c","u","m","e","n","t","s"," ","w","h","e","n"," ","a","n","s","w",
      "e","r","i","n","g"," ","q","u","e","s","t","i","o","n","s",".","\n",
      " "," "," "," ">>

FormDoc1 ==
    [title |-> TxtDoc1Title, content |-> TxtDoc1Content,
     category |-> Some("documentation"),
     tags |-> Json(<<<<"p","r","o","j","e","c","t">>, <<"c","h","a","t","b","o","t">>,
               <<"g","e","m","i","n","i">>>>),
     metadata |-> Json("{}")]

FormDoc2 ==
    [title |-> TxtDoc2Title, content |-> TxtDoc2Content,
     category |-> Some("database"),
     tags |-> Json(<<<<"m","o","n","g","o","d","b">>, <<"d","a","t","a","b","a","s","e">>,
               <<"s","t","o","r","a","g","e">>>>),
     metadata |-> Json("{}")]

\* A summary longer than a preview.
SummaryMongo ==
    [summary |-> TxtDoc2Content, key_points |-> <<>>,
     action_items |-> <<>>, decisions |-> <<>>, tags |-> <<>>]

\* The store after the example's two uploads and the upload of a meeting
\* about them, and a store that holds the second document only.
ExampleStores ==
    { << <<DocumentData(FormDoc1, <<"DOC", "A">>, OldDate),
           DocumentData(FormDoc2, <<"DOC", "B">>, OldDate)>>,
         <<MeetingData("transcript-1", SummaryMongo, 0, 0)>> >>,
      << <<DocumentData(FormDoc2, <<"DOC", "B">>, OldDate)>>, <<>> >> }

FnStores ==
    SampleStores \cup ExampleStores \cup { <<LargeDocuments, LargeMeetings>> }

Slots(n) == [r \in 1..n |-> IdleFrame]

\* What the retail bot's database may hold when the bot starts: the bot
\* reads users, products and orders and never writes them.
EmptyShop == [users |-> <<>>, products |-> <<>>, orders |-> <<>>]

SmallShop ==
    [users |-> <<[name |-> Nothing]>>,
     products |-> <<[name |-> <<"D","e","s","k">>, category |-> <<"H","o","m","e">>],
                    [name |-> <<"G","a","m","i","n","g"," ","L","A","P","T","O","P">>,
                     category |-> TxtElectronics]>>,
     orders |-> <<[total_amount |-> 500]>>]

MaxOrders == 11

LargeShop ==
    [users |-> <<[name |-> Some("Ann Lee")]>>,
     products |-> <<>>,
     orders |-> [i \in 1..MaxOrders |-> [total_amount |-> 100 * i]]]

SampleShops == {EmptyShop, SmallShop, LargeShop}

\* The retail bot is another program: it is not running.
RetailIdle ==
    /\ agent = [client |-> FALSE, db |-> FALSE, model |-> FALSE]
    /\ shop = EmptyShop
    /\ conversations = <<>>
    /\ result = NoResult

\* The process starts on an empty store.
InitStore ==
    /\ openai_handler \in BOOLEAN
    /\ gemini_handler \in BOOLEAN
    /\ documents = <<>>
    /\ meeting_summaries = <<>>
    /\ now = 0
    /\ http = Respond("none", 0)
    /\ req = Slots(1)
    /\ fn = NoCall
    /\ RetailIdle

\* The process starts on a store that holds records; one chat request can be
\* in flight.
Init ==
    /\ openai_handler \in BOOLEAN
    /\ gemini_handler \in BOOLEAN
    /\ \E st \in SampleStores : documents = st[1] /\ meeting_summaries = st[2]
    /\ now = 0
    /\ http = Respond("none", 0)
    /\ req = Slots(1)
    /\ fn = NoCall
    /\ RetailIdle

ChatStep(r, queries, outcomes) ==
    \/ \E query \in queries : AskQuestion(r, query)
    \/ \E store_fails \in BOOLEAN : GetDocumentById(r, store_fails)
    \/ \E store_fails \in BOOLEAN : GetMeetingById(r, store_fails)
    \/ \E store_fails \in BOOLEAN : SearchDocumentsText(r, store_fails)
    \/ \E store_fails \in BOOLEAN : GetRecentMeetings(r, store_fails)
    \/ \E outcome \in outcomes : GetResponse(r, outcome)
    \/ Return(r)

DocumentStep ==
    \/ \E form \in UploadForms, doc_id \in DocIds, store_fails \in BOOLEAN :
          upload_document(form, doc_id, store_fails)
    \/ \E doc_id \in DocIds, form \in UpdateForms, store_fails \in BOOLEAN :
          update_document(doc_id, form, store_fails)
    \/ \E doc_id \in DocIds, store_fails \in BOOLEAN :
          delete_document(doc_id, store_fails)

MeetingStep ==
    \/ \E transcript \in Transcripts, provider \in ProviderNames,
          outcome \in SummaryOutcomes, store_fails \in BOOLEAN :
          upload_meeting(transcript, provider, outcome, now, store_fails)
    \/ \E meeting_id \in MeetingIds, transcript \in Transcripts \cup {""},
          provider \in ProviderNames, outcome \in SummaryOutcomes :
          update_meeting(meeting_id, transcript, provider, outcome)
    \/ \E meeting_id \in MeetingIds, store_fails \in BOOLEAN :
          delete_meeting(meeting_id, store_fails)

FnStep ==
    \/ \E answer \in FnAnswers, question \in FnQuestions :
          CallCalculateConfidence(answer, question)
    \/ \E keywords \in FnKeywordLists, content_lower \in FnTexts :
          CallRelevanceScore(keywords, content_lower)
    \/ \E question \in FnQuestions : CallFindRelevant(question)
    \/ \E all_docs \in HitLists : CallUniqueDocs(all_docs)
    \/ \E question \in FnQuestions : CallRender(question)
    \/ FnReturn

\* Chat requests, one at a time, while time passes.
Next == Tick \/ \E r \in DOMAIN req : ChatStep(r, ChatQueries, ProviderOutcomes)

Spec == Init /\ [][Next]_vars

\* The endpoints that change the store, from an empty store.
NextStore == DocumentStep \/ MeetingStep \/ Tick

SpecStore == InitStore /\ [][NextStore]_vars

\* The document endpoints alone, from an empty store.
NextDocuments == DocumentStep \/ Tick

SpecDocuments == InitStore /\ [][NextDocuments]_vars

\* Two chat requests in flight at once, on a store that holds records.
ConcurrentQueries ==
    { [question |-> TxtBudgetWord, doc_id |-> NoId, meeting_id |-> NoId,
       ai_provider |-> "openai", context_days |-> Nothing],
      [question |-> TxtQIsIt, doc_id |-> <<"DOC", "A">>,
       meeting_id |-> MeetingIdAt(0), ai_provider |-> "gemini",
       context_days |-> Some(1)] }

ConcurrentOutcomes ==
    { [raises |-> FALSE, text |-> TxtAnsBudget],
      [raises |-> TRUE, text |-> TxtQuota] }

InitConcurrent ==
    /\ openai_handler \in BOOLEAN
    /\ gemini_handler \in BOOLEAN
    /\ \E st \in SampleStores :
          /\ Len(st[1]) > 1
          /\ documents = st[1]
          /\ meeting_summaries = st[2]
    /\ now = 0
    /\ http = Respond("none", 0)
    /\ req = Slots(2)
    /\ fn = NoCall
    /\ RetailIdle

NextConcurrent ==
    \E r \in DOMAIN req : ChatStep(r, ConcurrentQueries, ConcurrentOutcomes)

SpecConcurrent == InitConcurrent /\ [][NextConcurrent]_vars

\* The meeting endpoints alone, from an empty store.
NextMeetings == MeetingStep \/ Tick

SpecMeetings == InitStore /\ [][NextMeetings]_vars

\* A chat request in flight while documents are uploaded and deleted.
NextChatStore ==
    \/ \E r \in DOMAIN req : ChatStep(r, ConcurrentQueries, ConcurrentOutcomes)
    \/ \E form \in UploadForms, doc_id \in DocIds, store_fails \in BOOLEAN :
          upload_document(form, doc_id, store_fails)
    \/ \E doc_id \in DocIds, store_fails \in BOOLEAN :
          delete_document(doc_id, store_fails)

SpecChatStore == InitStore /\ [][NextChatStore]_vars

\* A store call or the provider call request r is waiting for returns or
\* raises.
CallReturns(r) ==
    \/ \E store_fails \in BOOLEAN : GetDocumentById(r, store_fails)
    \/ \E store_fails \in BOOLEAN : GetMeetingById(r, store_fails)
    \/ \E store_fails \in BOOLEAN : SearchDocumentsText(r, store_fails)
    \/ \E store_fails \in BOOLEAN : GetRecentMeetings(r, store_fails)
    \/ \E outcome \in ConcurrentOutcomes : GetResponse(r, outcome)

\* Request r is in a call and the event loop can resume it: the state
\* predicate that ENABLED CallReturns(r) amounts to.
InCall(r) == req[r].pc \notin {"idle", "done"} /\ Runnable(r)

\* Two chat requests in flight, every call of which returns or raises in the
\* end: the store and the provider answer, and the event loop resumes a
\* request whose call has returned and hands a finished response to the
\* caller.  The second conjunct is SF_vars(CallReturns(r)) with its ENABLED
\* written as the state predicate InCall(r).
SpecLive ==
    /\ InitConcurrent
    /\ [][NextConcurrent]_vars
    /\ \A r \in 1..2 :
          /\ SF_vars(Return(r))
          /\ <>[](~InCall(r)) \/ []<><<CallReturns(r)>>_vars

\* The retail bot, started with or without a database and a model.
InitRetail ==
    /\ openai_handler = FALSE
    /\ gemini_handler = FALSE
    /\ documents = <<>>
    /\ meeting_summaries = <<>>
    /\ now = 0
    /\ http = Respond("none", 0)
    /\ req = Slots(1)
    /\ fn = NoCall
    /\ \E outcome \in ConnectOutcomes, model \in BOOLEAN :
          agent = [client |-> connect(outcome).client,
                   db |-> connect(outcome).db, model |-> model]
    /\ shop \in SampleShops
    /\ conversations = <<>>
    /\ result = NoResult

NextRetail ==
    \E user_query \in UserQueries, session_id \in SessionIds,
       fails \in BOOLEAN, reply \in RetailReplies, insert_fails \in BOOLEAN :
        process_query(user_query, session_id, fails, reply, insert_fails)

SpecRetail == InitRetail /\ [][NextRetail]_vars

\* The retail bot answering queries of one session until a conversation has
\* been logged.
NextShop ==
    \E user_query \in ShopQueries, fails \in BOOLEAN, reply \in RetailReplies,
       insert_fails \in BOOLEAN :
        /\ conversations = <<>>
        /\ process_query(user_query, "default", fails, reply, insert_fails)

SpecShop == InitRetail /\ [][NextShop]_vars

\* The functions of the pipeline called on their own against a store.
InitFn ==
    /\ openai_handler \in BOOLEAN
    /\ gemini_handler = TRUE
    /\ \E st \in FnStores : documents = st[1] /\ meeting_summaries = st[2]
    /\ now = 0
    /\ http = Respond("none", 0)
    /\ req = Slots(1)
    /\ fn = NoCall
    /\ RetailIdle

SpecFn == InitFn /\ [][FnStep]_vars

(***************************************************************************)
(* Properties of ask_question                                              *)
(***************************************************************************)
Requests == DOMAIN req

Returned(r) == req[r].pc = "done"

Answered(r) == Returned(r) /\ req[r].outcome = "answered"

\* C1, as the specification states it: every ChatResponse returned by
\* ask_question has a confidence in [0.2, 0.95] (0.3 when no context was
\* assembled), whatever its store and provider calls did.
C1_ConfidenceInRange ==
    \A r \in Requests :
        Returned(r) =>
            /\ req[r].response.confidence \in UncertainConfidence..MaxConfidence
            /\ req[r].context = <<>> => req[r].response.confidence = NoContextConfidence

\* C1, amended: a ChatResponse built from a provider's answer has a confidence
\* in [0.2, 0.95], exactly 0.3 when no context was assembled; the error
\* response (the provider call raised, or no provider is available) has
\* confidence 0.0; no other value is returned.
C1_ConfidenceInRangeOrError ==
    \A r \in Requests :
        Returned(r) =>
            /\ Answered(r) =>
                  /\ req[r].response.confidence \in UncertainConfidence..MaxConfidence
                  /\ req[r].context = <<>> =>
                        req[r].response.confidence = NoContextConfidence
            /\ ~Answered(r) => req[r].response.confidence = ErrorConfidence

\* C1 witness: an answer given with context that got more than the base
\* confidence.
C1_Witness ==
    \E r \in Requests :
        /\ Answered(r)
        /\ req[r].context # <<>>
        /\ req[r].response.confidence > BaseConfidence

\* C2: when the requested provider is available it is the one invoked and
\* reported; when it is not and some provider is available, the first
\* available one (openai, then gemini) is invoked and reported.
C2_ProviderFallback ==
    \A r \in Requests :
        (Returned(r) /\ (openai_handler \/ gemini_handler)) =>
            LET requested == req[r].requested
                available == \/ requested = "openai" /\ openai_handler
                             \/ requested = "gemini" /\ gemini_handler
                used == IF available THEN requested
                        ELSE IF openai_handler THEN "openai" ELSE "gemini"
            IN  /\ req[r].invoked = <<used>>
                /\ req[r].response.ai_provider = used

\* C2 witness: openai was requested, only gemini is available, and gemini
\* answered.
C2_Witness ==
    \E r \in Requests :
        /\ Answered(r)
        /\ req[r].requested = "openai"
        /\ ~openai_handler
        /\ req[r].invoked = <<"gemini">>

\* C3: with no provider available a chat request ends in the error response
\* that names the missing provider, with no handler invoked, and no response
\* built from an answer can be taken for it.
C3_NoProviderSurfaces ==
    \A r \in Requests :
        /\ (Returned(r) /\ ~openai_handler /\ ~gemini_handler) =>
              /\ req[r].invoked = <<>>
              /\ req[r].response.answer =
                     TxtErrorPrefix \o TxtUnavailable \o ProviderText("openai")
              /\ req[r].response.confidence = ErrorConfidence
              /\ req[r].response.sources = <<>>
        /\ Answered(r) => req[r].response.confidence # ErrorConfidence

\* C3 witness: a request has returned while no provider is available.
C3_Witness ==
    \E r \in Requests : Returned(r) /\ ~openai_handler /\ ~gemini_handler

\* The store calls one pass of the retrieval makes for a query.
CallsPerPass(query) ==
    IF query.doc_id # NoId THEN (IF query.meeting_id # NoId THEN 2 ELSE 1)
    ELSE IF query.meeting_id # NoId THEN 1
    ELSE Len(SearchKeywords(query)) + 1

AllFailed(calls, first, last) == \A i \in first..last : calls[i]

\* C5: ask_question always returns a ChatResponse (the endpoint answers 200):
\* when every store call of a pass fails there is no context, respectively
\* no sources, and when the provider call raises the answer is the error
\* string carrying the exception's text.
C5_NoExceptionPropagates ==
    /\ http.op = "ask_question" => http.status = 200
    /\ \A r \in Requests :
          LET f == req[r]
              n == CallsPerPass(f.query)
          IN  /\ (f.pc = "get_response" /\ AllFailed(f.calls, 1, n)) =>
                    f.context = <<>>
              /\ Returned(r) =>
                    /\ f.response.ai_provider \in {"openai", "gemini"}
                    /\ f.reply.raises =>
                          /\ f.response.answer = TxtErrorPrefix \o f.reply.text
                          /\ f.response.sources = <<>>
                    /\ (f.phase = "sources" /\ AllFailed(f.calls, n + 1, 2 * n)) =>
                          f.response.sources = <<>>

\* C5 witness: every store call failed while the sources were collected, on
\* a store that holds a record the query names, and the response has none.
C5_Witness ==
    \E r \in Requests :
        /\ Returned(r)
        /\ req[r].phase = "sources"
        /\ AllFailed(req[r].calls, CallsPerPass(req[r].query) + 1,
                     2 * CallsPerPass(req[r].query))
        /\ req[r].query.doc_id # NoId
        /\ FindOne(documents, "doc_id", req[r].query.doc_id) # Nothing
        /\ req[r].response.sources = <<>>

\* C8, as the specification states it: without context the response has
\* confidence 0.3 and no sources.
C8_NoContextOverride ==
    \A r \in Requests :
        (Returned(r) /\ req[r].context = <<>>) =>
            /\ req[r].response.confidence = NoContextConfidence
            /\ req[r].response.sources = <<>>

\* C8, amended: without context the response has no sources, and when the
\* provider returned an answer its confidence is 0.3 whatever the answer is.
C8_NoContextOverrideWhenAnswered ==
    \A r \in Requests :
        (Returned(r) /\ req[r].context = <<>>) =>
            /\ req[r].response.sources = <<>>
            /\ Answered(r) =>
                  /\ req[r].response.confidence = NoContextConfidence
                  /\ req[r].response.answer = req[r].reply.text

\* C8 witness: an answer without context for which the estimator computes
\* another value than 0.3.
C8_Witness ==
    \E r \in Requests :
        /\ Answered(r)
        /\ req[r].context = <<>>
        /\ CalculateConfidence(req[r].response.answer, req[r].query.question)
               # NoContextConfidence
        /\ req[r].response.confidence = NoContextConfidence

(***************************************************************************)
(* Properties of the store-changing endpoints                              *)
(***************************************************************************)
\* C4, as the specification states it: with at least one provider available,
\* a meeting upload is never refused because the requested provider is
\* unavailable (the summary is asked of the first available one).
C4_SummaryFallback ==
    (http.op = "upload_meeting" /\ (openai_handler \/ gemini_handler)) =>
        \A p \in ProviderNames : http.detail # TxtUnavailable \o ProviderText(p)

UniqueIn(coll, field) ==
    \A i, j \in 1..Len(coll) : coll[i][field] = coll[j][field] => i = j

\* C7: no two stored documents share a doc_id and no two stored meetings a
\* meeting_id, whatever ids the uploads come with.
C7_UniqueIds ==
    /\ UniqueIn(documents, "doc_id")
    /\ UniqueIn(meeting_summaries, "meeting_id")

\* C7 witness: an upload came with the doc_id of a stored document and was
\* refused by the index, and a meeting is stored too.
C7_Witness ==
    /\ http.op = "upload_document"
    /\ http.detail = TxtDuplicateKey
    /\ documents # <<>>
    /\ meeting_summaries # <<>>

(***************************************************************************)
(* Properties of the pipeline's functions                                  *)
(***************************************************************************)
HasUncertaintyPhrase(answer) ==
    \E i \in 1..Len(uncertainty_phrases) :
        Contains(uncertainty_phrases[i], lower(answer))

\* C9: an answer that contains an uncertainty phrase, in any case, gets
\* confidence 0.2 whatever its overlap with the question; the loop stops at
\* the first phrase of the list that the answer contains.
C9_UncertaintyForcesLow ==
    fn.op = "calculate_confidence" =>
        LET first == FirstUncertain(lower(fn.answer), 1)
        IN  /\ HasUncertaintyPhrase(fn.answer) =>
                  /\ fn.result = UncertainConfidence
                  /\ first # 0
                  /\ Contains(uncertainty_phrases[first], lower(fn.answer))
                  /\ \A j \in 1..(first - 1) :
                        ~Contains(uncertainty_phrases[j], lower(fn.answer))
            /\ ~HasUncertaintyPhrase(fn.answer) => first = 0

\* C9 witness: an answer with a phrase in upper case that shares a term with
\* the question got 0.2.
C9_Witness ==
    /\ fn.op = "calculate_confidence"
    /\ HasUncertaintyPhrase(fn.answer)
    /\ FirstUncertain(fn.answer, 1) = 0
    /\ Range(split(lower(fn.question))) \cap Range(split(lower(fn.answer))) # {}
    /\ fn.result = UncertainConfidence

\* The set of lower-case words of a text, split at white space.
WordSet(text) == Range(split(lower(text)))

\* C22: for an answer without an uncertainty phrase the confidence is
\* min(0.95, 0.7 + 0.3 * overlap) at the nearest hundredth, where overlap is
\* the share of the question's lower-case words that the answer contains
\* (0 for a question without words); it is 0.7 at overlap 0, 0.95 from
\* overlap 5/6 on, and never smaller for a larger overlap.
C22_ConfidenceFormula ==
    (fn.op = "calculate_confidence" /\ ~HasUncertaintyPhrase(fn.answer)) =>
        LET Q == WordSet(fn.question)
            n == Cardinality(Q \cap WordSet(fn.answer))
            d == IF Q = {} THEN 1 ELSE Cardinality(Q)
            exact == BaseConfidence * d + SimilarityWeight * n
            off == fn.result * d - exact
        IN  /\ exact >= MaxConfidence * d => fn.result = MaxConfidence
            /\ exact < MaxConfidence * d =>
                  /\ 2 * off <= d
                  /\ 0 - d <= 2 * off
            /\ n = 0 => fn.result = BaseConfidence
            /\ 6 * n >= 5 * d => fn.result = MaxConfidence
            /\ \A answer \in FnAnswers, question \in FnQuestions :
                  LET Q2 == WordSet(question)
                      n2 == Cardinality(Q2 \cap WordSet(answer))
                      d2 == IF Q2 = {} THEN 1 ELSE Cardinality(Q2)
                  IN  (~HasUncertaintyPhrase(answer) /\ n * d2 <= n2 * d) =>
                          fn.result <= CalculateConfidence(answer, question)

\* C22 witness: an answer that holds five of the six words of the question,
\* in another case and order, got 0.95.
C22_Witness ==
    /\ fn.op = "calculate_confidence"
    /\ ~HasUncertaintyPhrase(fn.answer)
    /\ Cardinality(WordSet(fn.question)) = 6
    /\ Cardinality(WordSet(fn.question) \cap WordSet(fn.answer)) = 5
    /\ fn.answer # lower(fn.answer)
    /\ fn.result = MaxConfidence

InUnitInterval(score) ==
    /\ score.den > 0
    /\ 0 <= score.num
    /\ score.num <= score.den

IsScoreOf(score, keywords, content_lower) ==
    LET found == {i \in 1..Len(keywords) : Contains(keywords[i], content_lower)}
    IN  /\ InUnitInterval(score)
        /\ keywords = <<>> => score.num = 0
        /\ keywords # <<>> =>
              score.num * Len(keywords) = Cardinality(found) * score.den

\* C10: for every keyword list, repeated keywords included, the score is
\* matches / len(keywords), in [0, 1], and 0 for the empty list; so are the
\* scores both paths attach to their records.
C10_ScoreIsFraction ==
    /\ fn.op = "relevance_score" =>
          IsScoreOf(fn.result, fn.keywords, fn.content_lower)
    /\ fn.op = "find_relevant" =>
          /\ \A i \in 1..Len(fn.documents) :
                IsScoreOf(fn.documents[i].relevance_score,
                          DocKeywords(fn.question),
                          ScoredText(fn.documents[i].title,
                                     fn.documents[i].content,
                                     fn.documents[i].tags))
          /\ \A i \in 1..Len(fn.meetings) :
                IsScoreOf(fn.meetings[i].relevance_score,
                          MeetingKeywords(fn.question),
                          ScoredText(fn.meetings[i].title,
                                     fn.meetings[i].summary,
                                     fn.meetings[i].tags))

\* C10 witness: a list with a repeated keyword scored 1 on a text that
\* contains it.
C10_Witness ==
    /\ fn.op = "relevance_score"
    /\ Len(fn.keywords) > Cardinality(Range(fn.keywords))
    /\ fn.result.num = fn.result.den

(***************************************************************************)
(* Properties of concurrent chat requests                                  *)
(***************************************************************************)
\* The query as the caller sent it.
SentQuery(f) == [f.query EXCEPT !.ai_provider = f.requested]

\* ask_question run from its start to its return with nothing else running:
\* calls are the outcomes of its store calls in order, reply is what the
\* handler does when awaited.
RECURSIVE RunAlone(_, _, _)
RunAlone(f, calls, reply) ==
    CASE f.pc = "get_document" ->
            RunAlone(AfterGetDocument(f, Head(calls)), Tail(calls), reply)
      [] f.pc = "get_meeting" ->
            RunAlone(AfterGetMeeting(f, Head(calls)), Tail(calls), reply)
      [] f.pc = "search_documents" ->
            RunAlone(AfterSearchDocuments(f, Head(calls)), Tail(calls), reply)
      [] f.pc = "recent_meetings" ->
            RunAlone(AfterGetRecentMeetings(f, Head(calls)), Tail(calls), reply)
      [] f.pc = "get_response" ->
            RunAlone(AfterGetResponse(f, reply), calls, reply)
      [] OTHER -> f

\* C6: with two chat requests interleaved at their awaits, no step of a
\* request changes the provider registry or the store, and the response of
\* each request is the one it gets when it runs alone on the same store with
\* the same outcomes of its calls.
C6_RequestsIsolated ==
    /\ [](\A r \in Requests :
            Returned(r) =>
                req[r].response =
                    RunAlone(AskFrame(SentQuery(req[r])), req[r].calls,
                             req[r].reply).response)
    /\ [][registry' = registry /\ store' = store]_vars

\* C6 witness: two requests that name different providers have both
\* returned, each with its own provider, one of them with sources.
C6_Witness ==
    /\ Returned(1)
    /\ Returned(2)
    /\ req[1].response.ai_provider # req[2].response.ai_provider
    /\ req[1].query.question # req[2].query.question
    /\ req[1].response.sources # <<>>

ScoreEqual(a, b) == ~ScoreLess(a, b) /\ ~ScoreLess(b, a)

\* The place at which the record with this id first arrived.
Arrival(arrived, field, id) ==
    CHOOSE i \in 1..Len(arrived) :
        /\ arrived[i][field] = id
        /\ \A j \in 1..(i - 1) : arrived[j][field] # id

SortedStable(returned, arrived, field) ==
    \A i, j \in 1..Len(returned) :
        i < j =>
            /\ ~ScoreLess(returned[i].relevance_score, returned[j].relevance_score)
            /\ ScoreEqual(returned[i].relevance_score, returned[j].relevance_score) =>
                  Arrival(arrived, field, returned[i][field])
                      < Arrival(arrived, field, returned[j][field])

\* C11: the records both paths return are in non-increasing score order, and
\* records of equal score are in the order in which they arrived from the
\* store.
C11_SortedStable ==
    fn.op = "find_relevant" =>
        /\ SortedStable(fn.documents, fn.all_docs, "doc_id")
        /\ SortedStable(fn.meetings, fn.recent_meetings, "meeting_id")

\* C11 witness: documents were returned of which two have equal scores, and
\* one that arrived before them has a lower score and is returned behind them.
C11_Witness ==
    /\ fn.op = "find_relevant"
    /\ \E i, j, k \in 1..Len(fn.documents) :
          /\ i < j /\ j < k
          /\ ScoreEqual(fn.documents[i].relevance_score,
                        fn.documents[j].relevance_score)
          /\ ScoreLess(fn.documents[k].relevance_score,
                       fn.documents[j].relevance_score)
          /\ Arrival(fn.all_docs, "doc_id", fn.documents[k].doc_id)
                 < Arrival(fn.all_docs, "doc_id", fn.documents[i].doc_id)

KeywordsMongo ==
    <<<<"w","h","a","t">>, <<"m","o","n","g","o","d","b">>, <<"u","s","e",
      "d">>, <<"f","o","r">>>>

KeywordsMongoSpec == <<KeywordsMongo[2], KeywordsMongo[3]>>

ExampleCall ==
    /\ fn.op = "find_relevant"
    /\ fn.question = TxtQMongo
    /\ \E i \in 1..Len(documents) : documents[i].content = TxtDoc2Content

IsDoc2(d) == d.content = TxtDoc2Content

\* C12, as the specification states it: for "What is MongoDB used for?" the
\* keywords are mongodb and used, and the document about MongoDB gets score
\* 1.0 and is the first record returned.
C12_MongoExample ==
    ExampleCall =>
        /\ Range(DocKeywords(fn.question)) = Range(KeywordsMongoSpec)
        /\ IsDoc2(fn.documents[1])
        /\ fn.documents[1].relevance_score.num = fn.documents[1].relevance_score.den

\* C12, amended: the keywords are what, mongodb, used, for (only "is" is
\* dropped); the document about MongoDB contains mongodb and used only and
\* gets score 2/4; it is returned behind no record of lower score, and
\* behind the example's first document, which scores 2/4 as well (mongodb,
\* for) and arrives first.
C12_MongoExampleHalf ==
    ExampleCall =>
        /\ DocKeywords(fn.question) = KeywordsMongo
        /\ \E i \in 1..Len(fn.documents) :
              /\ IsDoc2(fn.documents[i])
              /\ fn.documents[i].relevance_score = [num |-> 2, den |-> 4]
              /\ \A k \in 1..Len(KeywordsMongo) :
                    Contains(KeywordsMongo[k],
                             ScoredText(fn.documents[i].title,
                                        fn.documents[i].content,
                                        fn.documents[i].tags))
                        <=> k \in {2, 3}
              /\ \A j \in 1..(i - 1) :
                    ~ScoreLess(fn.documents[j].relevance_score,
                               fn.documents[i].relevance_score)
              /\ i = Len(documents)

\* C12 witness: the question was asked on the example's store and both
\* documents were returned, the one about MongoDB second.
C12_Witness ==
    /\ ExampleCall
    /\ Len(fn.documents) = 2
    /\ IsDoc2(fn.documents[2])


(***************************************************************************)
(* Properties of the context assembly                                      *)
(***************************************************************************)
NoIds(query) == query.doc_id = NoId /\ query.meeting_id = NoId

\* The searches of request r brought no document: each one failed or found
\* nothing in the store.
NoDocumentFound(f) ==
    \A k \in 1..Len(SearchKeywords(f.query)) :
        f.calls[k] \/ search_documents_text(SearchKeywords(f.query)[k]) = <<>>

\* No meeting of the last days contains a keyword of the question.
NoMeetingMatches(f) ==
    LET recent_meetings == get_recent_meetings(ContextDays(f.query))
    IN  \A i \in 1..Len(recent_meetings) :
            Matches(MeetingKeywords(f.query.question),
                    ScoredText(recent_meetings[i].title,
                               recent_meetings[i].summary,
                               recent_meetings[i].tags)) = 0

\* C13: when a request names no record, its searches bring no document and
\* no recent meeting contains a keyword of its question, _build_context
\* returns the empty context, and a request whose context is empty gets the
\* response of the branch without context: the provider's answer, no
\* sources, confidence 0.3.
C13_EmptyContext ==
    /\ [][\A r \in Requests :
            (/\ req[r].pc = "recent_meetings"
             /\ req[r].phase = "context"
             /\ req'[r].pc = "get_response"
             /\ NoIds(req[r].query)
             /\ NoDocumentFound(req[r])
             /\ NoMeetingMatches(req[r])) => req'[r].context = <<>>]_vars
    /\ [](\A r \in Requests :
            (Answered(r) /\ req[r].context = <<>>) =>
                /\ req[r].phase = "context"
                /\ req[r].response =
                       ChatResponse(req[r].reply.text, <<>>,
                                    req[r].query.ai_provider, NoContextConfidence))

\* C13 witness: a question with keywords was answered without context after
\* every store call succeeded, on a store that holds a document and a
\* recent meeting, none of which contains a keyword.
C13_Witness ==
    \E r \in Requests :
        /\ Answered(r)
        /\ NoIds(req[r].query)
        /\ req[r].context = <<>>
        /\ req[r].calls # <<>>
        /\ \A i \in 1..Len(req[r].calls) : ~req[r].calls[i]
        /\ MeetingKeywords(req[r].query.question) # <<>>
        /\ get_recent_meetings(ContextDays(req[r].query)) # <<>>
        /\ documents # <<>>


\* C14, as the specification states it: in the context a free-text field
\* longer than 200 characters is cut to 200 characters and the marker, and a
\* shorter one is rendered unchanged.
C14_ContextTruncated ==
    fn.op = "render" =>
        /\ \A i \in 1..Len(fn.doc_context) :
              /\ fn.doc_context[i].content = Preview(fn.documents[i].content)
              /\ Len(fn.doc_context[i].content) <= PreviewLen + 3
        /\ \A i \in 1..Len(fn.meeting_context) :
              /\ fn.meeting_context[i].summary = Preview(fn.meetings[i].summary)
              /\ Len(fn.meeting_context[i].summary) <= PreviewLen + 3

IsPreviewOf(preview, text) ==
    /\ Len(text) <= PreviewLen => preview = text
    /\ Len(text) > PreviewLen =>
          /\ Len(preview) = PreviewLen + 3
          /\ \A k \in 1..PreviewLen : preview[k] = text[k]
          /\ \A k \in (PreviewLen + 1)..(PreviewLen + 3) : preview[k] = "."

\* C14, amended: the context renders every record with its free text in
\* full, whatever its length; it is the sources of the response whose free
\* text is cut to its first 200 characters followed by "...", a text of at
\* most 200 characters being given unchanged, so that no preview in the
\* sources exceeds 203 characters.
C14_SourcesTruncated ==
    fn.op = "render" =>
        /\ \A i \in 1..Len(fn.doc_context) :
              fn.doc_context[i].content = fn.documents[i].content
        /\ \A i \in 1..Len(fn.meeting_context) :
              fn.meeting_context[i].summary = fn.meetings[i].summary
        /\ \A i \in 1..Len(fn.doc_sources) :
              IsPreviewOf(fn.doc_sources[i].content_preview,
                          fn.documents[i].content)
        /\ \A i \in 1..Len(fn.meeting_sources) :
              IsPreviewOf(fn.meeting_sources[i].summary, fn.meetings[i].summary)

\* C14 witness: a document and a meeting with more than 200 characters of
\* free text were rendered, in full in the context and cut in the sources.
C14_Witness ==
    /\ fn.op = "render"
    /\ \E i \in 1..Len(fn.doc_sources) :
          /\ Len(fn.doc_context[i].content) > PreviewLen + 3
          /\ Len(fn.doc_sources[i].content_preview) = PreviewLen + 3
    /\ \E i \in 1..Len(fn.meeting_sources) :
          /\ Len(fn.meeting_context[i].summary) > PreviewLen + 3
          /\ Len(fn.meeting_sources[i].summary) = PreviewLen + 3


Ids(records, field) == {records[i][field] : i \in 1..Len(records)}

\* The score the path's keywords give a record that arrived from the store.
CandidateScore(keywords, record, text) ==
    RelevanceScore(keywords, ScoredText(record.title, record[text], record.tags))

\* returned holds at most max of the candidates, all of them when there are
\* no more than max, and no candidate left out scores higher than a
\* returned one.
TopScored(returned, candidates, keywords, field, text, max) ==
    LET left_out == {i \in 1..Len(candidates) :
                        candidates[i][field] \notin Ids(returned, field)}
        n == Cardinality(Ids(candidates, field))
    IN  /\ Len(returned) = (IF n < max THEN n ELSE max)
        /\ Ids(returned, field) \subseteq Ids(candidates, field)
        /\ \A i \in left_out, j \in 1..Len(returned) :
              ~ScoreLess(returned[j].relevance_score,
                         CandidateScore(keywords, candidates[i], text))

\* The recent meetings that contain a keyword: the candidates of the
\* meetings path.
MatchingMeetings(recent_meetings, keywords) ==
    SelectSeq(recent_meetings,
              LAMBDA m : CandidateScore(keywords, m, "summary").num > 0)

\* C15: both paths return at most ten records (MAX_CONTEXT_DOCUMENTS for
\* documents, 10 for meetings), and the records returned are the highest
\* scored candidates: no candidate left out has a strictly higher score
\* than a returned one.
C15_TopScored ==
    fn.op = "find_relevant" =>
        /\ Len(fn.documents) <= MAX_CONTEXT_DOCUMENTS
        /\ Len(fn.meetings) <= MaxRelevantMeetings
        /\ TopScored(fn.documents, fn.all_docs, DocKeywords(fn.question),
                     "doc_id", "content", MAX_CONTEXT_DOCUMENTS)
        /\ TopScored(fn.meetings,
                     MatchingMeetings(fn.recent_meetings,
                                      MeetingKeywords(fn.question)),
                     MeetingKeywords(fn.question),
                     "meeting_id", "summary", MaxRelevantMeetings)

\* C15 witness: more than ten documents arrived from the searches, ten were
\* returned, and one that was left out arrived before a returned one that
\* scores higher.
C15_Witness ==
    /\ fn.op = "find_relevant"
    /\ Cardinality(Ids(fn.all_docs, "doc_id")) > MAX_CONTEXT_DOCUMENTS
    /\ Len(fn.documents) = MAX_CONTEXT_DOCUMENTS
    /\ \E i \in 1..Len(fn.all_docs), j \in 1..Len(fn.documents) :
          /\ fn.all_docs[i].doc_id \notin Ids(fn.documents, "doc_id")
          /\ ScoreLess(CandidateScore(DocKeywords(fn.question), fn.all_docs[i],
                                      "content"),
                       fn.documents[j].relevance_score)
          /\ i < Arrival(fn.all_docs, "doc_id", fn.documents[j].doc_id)


(***************************************************************************)
(* Properties of the updates                                               *)
(***************************************************************************)
\* C16, as the specification states it: updating a stored meeting with a
\* transcript and a provider that is available and answers succeeds, and the
\* stored transcript, summary, key_points, action_items, decisions and tags
\* are the newly generated ones, under the same meeting_id.
C16_UpdateRegenerates ==
    [][\A meeting_id \in MeetingIds, transcript \in Transcripts,
         provider \in ProviderNames, outcome \in SummaryOutcomes :
          (/\ update_meeting(meeting_id, transcript, provider, outcome)
           /\ FindOne(meeting_summaries, "meeting_id", meeting_id) # Nothing
           /\ SummaryDispatch(provider) # "none"
           /\ ~outcome.raises) =>
              /\ http'.status = 200
              /\ LET stored == FindOne(meeting_summaries', "meeting_id", meeting_id)
                 IN  /\ stored # Nothing
                     /\ stored[1].transcript = transcript
                     /\ stored[1].summary = outcome.result.summary
                     /\ stored[1].key_points = outcome.result.key_points
                     /\ stored[1].action_items = outcome.result.action_items
                     /\ stored[1].decisions = outcome.result.decisions
                     /\ stored[1].tags = outcome.result.tags]_vars

UpdatableFields == {"title", "content", "category", "tags", "metadata"}

Supplied(form) == {f \in UpdatableFields : form[f] # Nothing}

Unparsable(form) ==
    \/ form.tags # Nothing /\ ~form.tags[1].valid
    \/ form.metadata # Nothing /\ ~form.metadata[1].valid

SuppliedValue(form, f) ==
    IF f \in {"tags", "metadata"} THEN form[f][1].value ELSE form[f][1]

\* C17: a document update changes, in the document it names and in no
\* other, only the fields the request supplies and updated_at, the supplied
\* fields getting the supplied values; doc_id, created_at and every other
\* field keep their values.  A request that supplies no field, or whose
\* tags or metadata cannot be parsed, is answered 400 and leaves the store
\* unchanged.
C17_UpdateFrame ==
    [][\A doc_id \in DocIds, form \in UpdateForms, store_fails \in BOOLEAN :
          (http'.op = "update_document"
              /\ update_document(doc_id, form, store_fails)) =>
              /\ (Supplied(form) = {} \/ Unparsable(form)) =>
                    /\ http'.status = 400
                    /\ documents' = documents
              /\ Len(documents') = Len(documents)
              /\ \A i \in 1..Len(documents) :
                    /\ DOMAIN documents'[i] = DOMAIN documents[i]
                    /\ \A f \in DOMAIN documents[i] :
                          documents'[i][f] # documents[i][f] =>
                              /\ documents[i].doc_id = doc_id
                              /\ http'.status = 200
                              /\ f \in Supplied(form) \cup {"updated_at"}
                    /\ (documents'[i] # documents[i]) =>
                          \A f \in Supplied(form) :
                              documents'[i][f] = SuppliedValue(form, f)]_vars

\* C17 witness: a stored document was given a new title at a later time
\* than its upload; its content is the uploaded one.
C17_Witness ==
    /\ http = Respond("update_document", 200)
    /\ \E i \in 1..Len(documents) :
          /\ documents[i].title = TxtRoadmap
          /\ documents[i].content = FormBudget.content
          /\ documents[i].updated_at > documents[i].created_at

(***************************************************************************)
(* Properties of the chat requests' effect on the store                    *)
(***************************************************************************)
\* C18: a chat request is transient: no step of ask_question, from its call
\* to the return of its response, inserts, updates or deletes a record; the
\* documents and the meetings of the store are the same after the step as
\* before it, whatever the outcome of the request.
C18_ChatTransient ==
    [][\A r \in Requests :
          req'[r] # req[r] =>
              /\ documents' = documents
              /\ meeting_summaries' = meeting_summaries]_vars

\* C18 witness: on a store that holds documents and meetings, a request
\* that assembled a context has ended in the error response and returned.
C18_Witness ==
    /\ documents # <<>>
    /\ meeting_summaries # <<>>
    /\ \E r \in Requests :
          /\ Returned(r)
          /\ ~Answered(r)
          /\ req[r].context # <<>>
    /\ http = Respond("ask_question", 200)

(***************************************************************************)
(* Properties of the retail bot                                            *)
(***************************************************************************)
\* C19, as the specification states it: process_query always returns status
\* "success" or "error"; while the database is connected, a query that
\* returns "success" appends exactly one conversation record (session id,
\* user query, response, analysis) and a query that returns "error" appends
\* none.
C19_ConversationLogged ==
    [][\A user_query \in UserQueries, session_id \in SessionIds,
         fails \in BOOLEAN, reply \in RetailReplies,
         insert_fails \in BOOLEAN :
          process_query(user_query, session_id, fails, reply, insert_fails) =>
              /\ result'.status \in {"success", "error"}
              /\ (agent.client /\ result'.status = "success") =>
                    /\ Len(conversations') = Len(conversations) + 1
                    /\ SubSeq(conversations', 1, Len(conversations)) = conversations
                    /\ LET saved == conversations'[Len(conversations')]
                       IN  /\ saved.session_id = session_id
                           /\ saved.user_query = user_query
                           /\ saved.agent_response = result'.response
                           /\ saved.metadata = result'.analysis
              /\ (agent.client /\ result'.status = "error") =>
                    conversations' = conversations]_vars

(***************************************************************************)
(* Properties of the event loop                                            *)
(***************************************************************************)
\* C20, as the specification states it: the provider call of a chat request
\* is a point of suspension: while one request is waiting for its provider
\* call to return, another request that is pending at one of its own calls
\* can take its next step.
C20_ProviderCallSuspends ==
    \A r, s \in Requests :
        (/\ r # s
         /\ InProviderCall(req[r])
         /\ Dispatch(req[r].query.ai_provider) # "none"
         /\ req[s].pc \in {"get_document", "get_meeting", "search_documents",
                           "recent_meetings"}) =>
            ENABLED ChatStep(s, ConcurrentQueries, ConcurrentOutcomes)

(***************************************************************************)
(* Properties of termination                                               *)
(***************************************************************************)
\* C21: when every store call and every provider call returns or raises in
\* the end, a request that was made gets its ChatResponse in the end; the
\* provider is invoked at most once for a request (no retry); and a request
\* that is in its provider call leaves it by the return or the raise of
\* that call only (no timeout, no cancellation), so that it never completes
\* when the call never returns.
C21_EventuallyReturns ==
    /\ \A r \in 1..2 : (req[r].pc # "idle") ~> Returned(r)
    /\ [](\A r \in Requests : Len(req[r].invoked) <= 1)
    /\ [][\A r \in Requests :
            (InProviderCall(req[r]) /\ req'[r] # req[r]) =>
                \E outcome \in ConcurrentOutcomes :
                    req'[r] = AfterGetResponse(req[r], outcome)]_vars

\* C21 witness: a request has its response after a store call that failed
\* and a provider call that raised, while the other request is in a call.
C21_Witness ==
    \E r, s \in Requests :
        /\ Returned(r)
        /\ req[r].invoked # <<>>
        /\ req[r].reply.raises
        /\ \E i \in 1..Len(req[r].calls) : req[r].calls[i]
        /\ req[s].pc \notin {"idle", "done"}

(***************************************************************************)
(* Properties of the retail bot's analysis and reads                       *)
(***************************************************************************)
\* The groups of trigger words in the order in which they are looked for.
EntityGroups ==
    <<[name |-> "users", words |-> EntityUsersWords],
      [name |-> "products", words |-> EntityProductsWords],
      [name |-> "orders", words |-> EntityOrdersWords],
      [name |-> "all", words |-> EntityAllWords]>>

ActionGroups ==
    <<[name |-> "count", words |-> ActionCountWords],
      [name |-> "list", words |-> ActionListWords],
      [name |-> "price_query", words |-> ActionPriceWords]>>

\* name is the first group a word of which the query contains, or
\* "general" when it contains a word of no group.
FirstGroupWins(groups, query_lower, name) ==
    LET hits == {i \in 1..Len(groups) : AnyWordIn(groups[i].words, query_lower)}
    IN  IF hits = {} THEN name = "general"
        ELSE \E i \in hits : /\ name = groups[i].name
                              /\ \A j \in hits : i <= j

IsProductSearch(analysis) ==
    analysis.entity = "products" /\ analysis.action # "count"

\* C23: the analysis of a query names the first entity group and the first
\* action group of which the query contains a trigger word ("general" if
\* none), and the data are those of the store operations of that entity and
\* action, whatever else the query says (its text counts for a product
\* search only).
C23_AnalysisFirstGroup ==
    result.status = "success" =>
        LET analysis == result.analysis
            query_lower == lower(analysis.query)
        IN  /\ analysis.query \in ShopQueries
            /\ FirstGroupWins(EntityGroups, query_lower, analysis.entity)
            /\ FirstGroupWins(ActionGroups, query_lower, analysis.action)
            /\ analysis = analyze_query_simple(analysis.query)
            /\ \E fails \in BOOLEAN :
                  result.data =
                      Some(GetData([analysis EXCEPT
                                       !.query = IF IsProductSearch(analysis)
                                                 THEN analysis.query
                                                 ELSE <<>>],
                                   fails))

\* C23 witness: a query with words of the users group, of the orders group
\* and of the price group only was answered with the users of the store.
C23_Witness ==
    /\ result.status = "success"
    /\ AnyWordIn(EntityUsersWords, lower(result.analysis.query))
    /\ AnyWordIn(EntityOrdersWords, lower(result.analysis.query))
    /\ result.analysis.entity = "users"
    /\ result.analysis.action = "price_query"
    /\ "users" \in DOMAIN result.data[1]
    /\ result.data[1].users # <<>>

\* C27, as the specification states it: for a query classified as orders
\* and count, answered from a connected store whose reads did not raise, the
\* count of the data is the number of orders in the collection, whatever
\* its size.
C27_OrdersCounted ==
    (/\ result.status = "success"
     /\ is_connected
     /\ result.analysis.entity = "orders"
     /\ result.analysis.action = "count"
     /\ shop.orders # <<>>
     /\ result.data[1].total_sales = SumAmounts(shop.orders)) =>
        result.data[1].count = Len(shop.orders)

\* The data _get_data returns when every read returns its demo value.
DemoData(d) ==
    \/ d = [count |-> DemoUserCount, type |-> "users"]
    \/ d = [users |-> DemoUsers, count |-> DemoUserCount]
    \/ d = [count |-> DemoProductCount, type |-> "products"]
    \/ d = [products |-> DemoProducts, count |-> DemoProductCount]
    \/ /\ DOMAIN d = {"products", "count", "searched_for"}
       /\ d.products = DemoSearch
       /\ d.count = Len(DemoSearch)
    \/ d = [count |-> Len(DemoOrders), total_sales |-> DemoTotalSales,
            type |-> "orders"]
    \/ d = [orders |-> DemoOrders, count |-> Len(DemoOrders),
            total_sales |-> DemoTotalSales]
    \/ d = [users |-> DemoUserCount, products |-> DemoProductCount,
            total_sales |-> DemoTotalSales, connected |-> FALSE]

\* C30: the client and db handles of the store handler are both set or both
\* absent, and never change; every failed attempt to connect leaves both
\* absent; and while they are absent every read returns its demo value
\* whatever the store holds, save_conversation returns "demo_id" and stores
\* nothing, and every query is answered with status "success" from the demo
\* values.
C30_DemoMode ==
    /\ [](/\ agent.client <=> agent.db
          /\ \A outcome \in ConnectOutcomes \ {"connected"} :
                connect(outcome) = [client |-> FALSE, db |-> FALSE]
          /\ ~is_connected =>
                \A fails \in BOOLEAN :
                    /\ get_user_count(fails) = DemoUserCount
                    /\ get_users(fails) = DemoUsers
                    /\ get_product_count(fails) = DemoProductCount
                    /\ get_products(fails) = DemoProducts
                    /\ search_products(TxtLaptop, fails) = DemoSearch
                    /\ get_total_sales(fails) = DemoTotalSales
                    /\ get_orders(fails) = DemoOrders
                    /\ save_conversation("default", TxtQHello, TxtQHello,
                                         analyze_query_simple(TxtQHello), fails)
                           = [id |-> "demo_id", coll |-> conversations])
    /\ [][/\ agent' = agent
          /\ ~is_connected =>
                /\ conversations' = conversations
                /\ result'.status = "success"
                /\ DemoData(result'.data[1])]_vars

\* C30 witness: a handler whose connection failed answered a query about the
\* users of a store that holds other users with the demo users, and logged
\* nothing.
C30_Witness ==
    /\ ~agent.client
    /\ ~agent.db
    /\ shop.users # <<>>
    /\ result.status = "success"
    /\ result.data = Some([users |-> DemoUsers, count |-> DemoUserCount])
    /\ conversations = <<>>

(***************************************************************************)
(* Properties of the sources                                               *)
(***************************************************************************)
\* The source is one of the records that the context renders.
InContext(source, context) ==
    \E j \in 1..Len(context) :
        IF "doc_id" \in DOMAIN source
        THEN /\ context[j].kind = "Document"
             /\ context[j].title = source.title
             /\ context[j].category = source.category
             /\ Preview(context[j].content) = source.content_preview
        ELSE /\ context[j].kind = "Meeting"
             /\ context[j].title = source.title
             /\ context[j].date = source.date
             /\ Preview(context[j].summary) = source.summary

\* C24, as the specification states it: every source of a response is a
\* record that was rendered into the context given to the provider, also
\* when the store is changed between the two retrievals (here for the
\* requests none of whose store calls failed).
C24_SourcesFromContext ==
    \A r \in Requests :
        (Returned(r) /\ \A i \in 1..Len(req[r].calls) : ~req[r].calls[i]) =>
            \A i \in 1..Len(req[r].response.sources) :
                InContext(req[r].response.sources[i], req[r].context)

(***************************************************************************)
(* Properties of the meeting ids                                           *)
(***************************************************************************)
\* C25: an uploaded meeting gets the id of the clock's second; an upload in
\* a second whose id is already stored is answered with an error and leaves
\* the collection as it was, and an upload that is answered 200 appends one
\* record with that id.
C25_SameSecondRejected ==
    [][\A transcript \in Transcripts, provider \in ProviderNames,
         outcome \in SummaryOutcomes, store_fails \in BOOLEAN :
          (http'.op = "upload_meeting"
              /\ upload_meeting(transcript, provider, outcome, now, store_fails)) =>
              /\ (\E i \in 1..Len(meeting_summaries) :
                      meeting_summaries[i].meeting_id = MeetingIdAt(now)) =>
                    /\ http'.status = 500
                    /\ meeting_summaries' = meeting_summaries
              /\ http'.status = 200 =>
                    /\ Len(meeting_summaries') = Len(meeting_summaries) + 1
                    /\ SubSeq(meeting_summaries', 1, Len(meeting_summaries))
                           = meeting_summaries
                    /\ meeting_summaries'[Len(meeting_summaries')].meeting_id
                           = MeetingIdAt(now)]_vars

\* C25 witness: an upload was rejected for its duplicate id in the second in
\* which a meeting had been stored.
C25_Witness ==
    /\ http = RespondDetail("upload_meeting", 500, TxtDuplicateKey)
    /\ \E i \in 1..Len(meeting_summaries) :
          /\ meeting_summaries[i].meeting_id = MeetingIdAt(now)
          /\ meeting_summaries[i].created_at = now

(***************************************************************************)
(* Properties of the queries that name a record                            *)
(***************************************************************************)
\* The records the query names that the store holds.
NamedDocument(query) ==
    IF query.doc_id = NoId THEN Nothing
    ELSE FindOne(documents, "doc_id", query.doc_id)

NamedMeeting(query) ==
    IF query.meeting_id = NoId THEN Nothing
    ELSE FindOne(meeting_summaries, "meeting_id", query.meeting_id)

\* Documents come before meetings in a context or in a list of sources.
DocumentsFirst(blocks, IsDocument(_)) ==
    \A j, k \in 1..Len(blocks) :
        (j < k /\ IsDocument(blocks[k])) => IsDocument(blocks[j])

\* C26: a request that names a document or a meeting makes no keyword
\* search; its context and its sources hold the named records that the
\* store holds and nothing else, the document before the meeting; when the
\* store holds none of the named records the context is empty and the
\* provider's answer is returned with confidence 0.3 and no sources.
C26_NamedRecordsOnly ==
    \A r \in Requests :
        LET f == req[r]
            document == NamedDocument(f.query)
            meeting == NamedMeeting(f.query)
        IN  (f.pc # "idle" /\ ~NoIds(f.query)) =>
                /\ f.pc \notin {"search_documents", "recent_meetings"}
                /\ Len(f.calls) <= 2 * CallsPerPass(f.query)
                /\ f.pc \in {"get_response", "done"} =>
                      /\ \A j \in 1..Len(f.context) :
                            \/ <<f.context[j]>> = FormatDocumentContext(document)
                            \/ <<f.context[j]>> = FormatMeetingContext(meeting)
                      /\ Len(f.context) <= 2
                      /\ DocumentsFirst(f.context,
                                        LAMBDA b : b.kind = "Document")
                /\ Returned(r) =>
                      /\ \A j \in 1..Len(f.response.sources) :
                            \/ <<f.response.sources[j]>>
                                   = MapSeq(document, FormatSourceDocument)
                            \/ <<f.response.sources[j]>>
                                   = MapSeq(meeting, FormatSourceMeeting)
                      /\ Len(f.response.sources) <= 2
                      /\ DocumentsFirst(f.response.sources,
                                        LAMBDA b : "doc_id" \in DOMAIN b)
                /\ (document = Nothing /\ meeting = Nothing) =>
                      /\ f.pc \in {"get_response", "done"} => f.context = <<>>
                      /\ Answered(r) =>
                            f.response = ChatResponse(f.reply.text, <<>>,
                                                      f.query.ai_provider,
                                                      NoContextConfidence)

\* C26 witness: a request that named a meeting the store does not hold was
\* answered without context after its store call succeeded, on a store that
\* holds a document with a word of its question.
C26_Witness ==
    \E r \in Requests :
        /\ Answered(r)
        /\ req[r].calls = <<FALSE>>
        /\ req[r].query.doc_id = NoId
        /\ req[r].query.meeting_id # NoId
        /\ NamedMeeting(req[r].query) = Nothing
        /\ search_documents_text(TxtBudgetWord) # <<>>
        /\ Contains(TxtBudgetWord, req[r].query.question)
        /\ req[r].response.confidence = NoContextConfidence
        /\ req[r].response.sources = <<>>

(***************************************************************************)
(* Properties of the documents path                                        *)
(***************************************************************************)
\* The store's search for the keyword finds the document: title or content
\* contain it in any case, or it is one of the tags.
Finds(keyword, d) ==
    \/ Contains(keyword, lower(d.title))
    \/ Contains(keyword, lower(d.content))
    \/ keyword \in Range(d.tags)

RECURSIVE SumHits(_, _)
SumHits(keywords, k) ==
    IF k > Len(keywords) THEN 0
    ELSE Cardinality({i \in 1..Len(documents) : Finds(keywords[k], documents[i])})
         + SumHits(keywords, k + 1)

\* C28: the store is searched for the first five keywords of the question,
\* a repeated keyword once for each occurrence, and the score counts all
\* keywords; every returned document is found by one of the first five
\* keywords and has a score above 0, and a stored document that only a
\* sixth or later keyword finds is not returned.
C28_FirstFiveKeywords ==
    fn.op = "find_relevant" =>
        LET keywords == DocKeywords(fn.question)
            searched == Take(keywords, MaxSearchKeywords)
        IN  /\ Len(documents) <= SearchLimit =>
                  Len(fn.all_docs) = SumHits(searched, 1)
            /\ \A i \in 1..Len(fn.documents) :
                  /\ \E k \in 1..Len(searched) : Finds(searched[k], fn.documents[i])
                  /\ fn.documents[i].relevance_score.num > 0
                  /\ fn.documents[i].relevance_score =
                         [num |-> Cardinality(
                                      {k \in 1..Len(keywords) :
                                          Contains(keywords[k],
                                                   ScoredText(fn.documents[i].title,
                                                              fn.documents[i].content,
                                                              fn.documents[i].tags))}),
                          den |-> Len(keywords)]
            /\ \A j \in 1..Len(documents) :
                  (\A k \in 1..Len(searched) : ~Finds(searched[k], documents[j])) =>
                      documents[j].doc_id \notin Ids(fn.documents, "doc_id")

\* C28 witness: for a question of six keywords, the first five of which
\* repeat a keyword, a document that all of the first five find was returned
\* with the score 5/6, and a stored document that only the sixth finds was
\* not.
C28_Witness ==
    /\ fn.op = "find_relevant"
    /\ Len(DocKeywords(fn.question)) = 6
    /\ Cardinality(Range(Take(DocKeywords(fn.question), MaxSearchKeywords))) = 2
    /\ \E j \in 1..Len(documents) :
          /\ Finds(DocKeywords(fn.question)[6], documents[j])
          /\ documents[j].doc_id \notin Ids(fn.documents, "doc_id")
    /\ \E i \in 1..Len(fn.documents) :
          fn.documents[i].relevance_score = [num |-> 5, den |-> 6]
    /\ Len(fn.all_docs) = 5

\* What tells two hits apart: the doc_id, or the store's _id for a document
\* without doc_id.
SameDocument(a, b) ==
    IF a.doc_id # NoId \/ b.doc_id # NoId THEN a.doc_id = b.doc_id
    ELSE a._id = b._id

\* The positions of the hits that no earlier hit duplicates.
FirstHits(all_docs) ==
    {i \in 1..Len(all_docs) :
        \A j \in 1..(i - 1) : ~SameDocument(all_docs[j], all_docs[i])}

\* C29: the deduplicated list holds no two documents with the same doc_id;
\* it is the list of the hits that no earlier hit duplicates, in their order
\* of arrival, where documents without doc_id are told apart by their _id;
\* so is the list the documents path returns.
C29_UniqueByDocId ==
    /\ fn.op = "unique_docs" =>
          LET firsts == FirstHits(fn.all_docs)
          IN  /\ \A i, j \in 1..Len(fn.result) :
                    SameDocument(fn.result[i], fn.result[j]) => i = j
              /\ Len(fn.result) = Cardinality(firsts)
              /\ \A i \in firsts :
                    fn.result[Cardinality({j \in firsts : j <= i})] = fn.all_docs[i]
    /\ fn.op = "find_relevant" =>
          /\ \A i, j \in 1..Len(fn.documents) :
                fn.documents[i].doc_id = fn.documents[j].doc_id => i = j
          /\ Len(fn.documents) <= Len(fn.all_docs)

\* C29 witness: of a document that arrived twice with another between, and
\* of two documents without doc_id, the first hit of each was kept.
C29_Witness ==
    /\ fn.op = "unique_docs"
    /\ Len(fn.all_docs) = 3
    /\ Len(fn.result) = 2
    /\ fn.all_docs[1] = fn.all_docs[3]
    /\ fn.all_docs[1].doc_id = NoId
    /\ fn.all_docs[2].doc_id = NoId
    /\ fn.result = <<fn.all_docs[1], fn.all_docs[2]>>

=============================================================================
